---------------------------- MODULE Spec2Model ----------------------------
(***************************************************************************)
(* A model of the request forwarding engine of the Seidar reverse proxy:   *)
(* the backend connection counter and health state machine, the backend    *)
(* pool with round-robin selection, the active health monitor, the retry   *)
(* budget, and the long-lived (WebSocket / SSE) connection accounting.     *)
(*                                                                         *)
(* The module holds several specifications over one set of variables; a    *)
(* specification leaves the variables of the other parts at their initial  *)
(* values.                                                                 *)
(*   SpecGuard     Backend::try_create_guard at the level of its atomic    *)
(*                 steps, against guard drops                              *)
(*   SpecHealth    sequences of mark_success / mark_failure calls          *)
(*   Spec          requests, pool selection and health probes              *)
(*   SpecBudget    RetryBudget under concurrent requests                   *)
(*   SpecLongLived ConnectionTracker with WebSocket and SSE sessions       *)
(***************************************************************************)
EXTENDS Integers, Sequences, FiniteSets, TLC

(* ------------------------------ bounds -------------------------------- *)

\* threads calling try_create_guard concurrently (SpecGuard)
NThreads == 3
\* largest max_connections a backend is configured with
MaxConnections == 2
\* largest healthy_threshold / unhealthy_threshold of the configuration
\* (SpecHealth)
MaxThreshold == 3
\* largest healthy_threshold / unhealthy_threshold of the configuration (Spec)
PoolMaxThreshold == 2
\* backends of the pool's group (Spec)
NBackends == 2
\* requests served concurrently (Spec)
NRequests == 2
\* largest retries.max_attempts of the configuration (Spec)
MaxAttempts == 2
\* requests running RetryBudget::can_retry concurrently (SpecBudget)
NBudgetThreads == 2
\* requests recorded by the retry budget (SpecBudget)
MaxBudgetRequests == 4
\* largest min_requests the retry budget is built with (SpecBudget)
MaxMinRequests == 2
\* long-lived connections accepted (SpecLongLived)
NConns == 3
\* users opening long-lived connections (SpecLongLived)
NUsers == 2
\* largest per-tier connection limit of the QoS configuration (SpecLongLived)
MaxTierConns == 2
\* writes of the configuration file (SpecReload)
MaxFileWrites == 2
\* requests served while the configuration is reloaded (SpecReload)
NReloadRequests == 2
\* rate-limiter keys: user addresses and client IPs (SpecBucket)
NKeys == 2
\* clock ticks in one second; a token is TicksPerSec units, so that a rate
\* of rps tokens per second refills rps units per tick (SpecBucket)
TicksPerSec == 2
\* the clock stops after this many ticks (SpecBucket)
MaxTicks == 2
\* u64 seconds are modelled with this many bits: SubscriptionInfo.expiry,
\* grace_period_secs and the system time are below 2^TimeBits (SpecGate)
TimeBits == 3
\* the system time stops after this many seconds (SpecGate)
MaxNow == 3
\* client connections sending requests through the layers (SpecGate)
NGateRequests == 1
\* routes of a configuration (SpecRouter)
MaxRoutes == 2
\* backends of a configuration (SpecGroups)
MaxBackendConfigs == 2
\* calls of Shutdown::trigger (SpecShutdown)
MaxTriggers == 2

\* SpecBody: the longest inbound body, and the stand-in for the 1024 * 1024
\* bytes to_bytes buffers at most
MaxBodyLen == 3
BufferLimit == 2

\* SpecLife: the reloads applied, and the requests one bundle serves
MaxReloads == 2
MaxLifeRequests == 2

\* SpecRoundRobin: the backends of the group, the width of the usize counter
\* in bits, the concurrent callers and the calls made
RrBackends == 3
UsizeBits == 2
RrThreads == 2
RrMaxCalls == 6

\* SpecLeastConn: the longest backend list and the largest max_connections
LcMaxBackends == 2
LcMaxConnections == 2
\* calls of mark_success / mark_failure made one after another before the two
\* concurrent ones (SpecRace)
RaceWarmCalls == 3

VARIABLES
    \* the configuration in use: config.health_check and config.retries
    health_config, retry_config,
    \* SpecGuard: one backend and the threads running try_create_guard on it
    gb, gpc, gprev, gres,
    \* SpecHealth: one backend and the history of the mark_* calls made so far
    hb, lastCall, prevState, failRun, succRun, runStart, runTransitions,
    \* Spec: the backends of the pool's one group, the round-robin counter,
    \* the retry budget, the requests in flight, the health monitor's place in
    \* check_all, and what the upstream servers do
    backends, counter, budget,
    rpc, rbackend, attempts, method, max_attempts,
    probe_idx, down, failedProbes,
    \* SpecBudget: each request's place in proxy_handler and in can_retry, the
    \* values can_retry loaded, and the upstream attempts sent so far
    bpc, bseen, battempts, upstream,
    \* SpecLongLived: the QoS limits, ConnectionTracker.counts, each
    \* connection's place, its UserContext, and the decrements made for it
    qos_config, counts, lpc, lctx, ldecs,
    \* SpecTracker: each user's tier and the last ConnectionTracker call made
    ttier, tcall,
    \* SpecReload: the configuration file, the pending file event, the
    \* config_updates channel, the installed bundle (ArcSwap), the bundle the
    \* reloader is building, the loads the watcher refused, and for each
    \* request its place, the bundle it loaded, the number of its loads and
    \* the bundle versions its decisions were taken from
    config_file, fs_event, config_updates, inner_state, new_inner, refused,
    fpc, current_inner, loads, used,
    \* SpecScenario: what the upstream will answer to each request's next
    \* attempts, the number of answers planned, the attempts the upstream has
    \* received of each request, and the status returned to the client
    script, planned, received, answer,
    \* SpecMarks: the health marks the handler applied for each request's
    \* attempts, the mark of its latest attempt and that attempt's outcome
    marks,
    \* SpecBucket: the limits the rate limiter was built with, each key's
    \* tier, RateLimiterState.buckets, the monotonic clock, the last check
    \* made, and the count of admissions since a chosen moment
    rate_config, ktier, buckets, clock, bcall, hist,
    \* SpecGate: config.payments, config.rate_limit.enabled, whether the
    \* build checks arithmetic overflow, the subscription cache, the system
    \* time in seconds, and for each request its X-User-Address header, the
    \* layers it has still to pass, the layers it has run, what the
    \* subscription gate decided and when, and the status it was answered
    payments_config, rate_limit_enabled, overflow_checks, subs, now_secs,
    ahdr, apath, atrace, agate, astatus,
    \* SpecRouter: config.routes, Router.routes_by_host compiled from it,
    \* the last request matched and the result of match_request for it
    route_configs, routes_by_host, mreq, mresult,
    \* SpecGroups: the ProxyConfig of the installed bundle, the groups of
    \* its BackendManager, and the last group looked up by a matched route
    proxy_config, manager_groups, group_lookup,
    \* SpecShutdown: the signals sent on the broadcast channel, whether its
    \* Sender is still alive, which tasks the configuration enables, each
    \* task's place, and the position of each task's Receiver in the channel
    sent, sender_alive, task_enabled, tpc, tsub,
    \* SpecBody: the inbound request (method, body, whether its stream reads
    \* without error), the handler's body_bytes and body_opt, its position and
    \* attempts, and the body of every upstream attempt in order
    inbound, body_bytes, body_opt, body_pc, body_attempts, body_max, sent_bodies,
    \* SpecLife: the InnerState behind the ArcSwap with the state its components
    \* gather at run time, the content of subscriptions.json, and the history
    \* of the reloads (whether anything happened since the latest one, whether
    \* it applied the installed configuration again, their number)
    life_inner, life_file, life_quiet, life_twice, life_reloads,
    \* SpecAdmit: for each request its position, kind (plain, WebSocket upgrade,
    \* SSE), whether it carries a UserContext, whether it has acquired a backend
    \* slot, whether an upstream request was sent for it, and the rejection it
    \* got; the connection tracker's map and the backend
    adm_pc, adm_kind, adm_ctx, adm_acquired, adm_sent, adm_reject, adm_counts, adm_backend,
    \* SpecRoundRobin: RoundRobin.counter, which backends are selectable, whether
    \* the build checks arithmetic overflow, each caller's position and the
    \* number of its call, and for every call in the order of the fetch_add its
    \* start_count and what it returned
    rr_counter, rr_healthy, rr_checks, rr_pc, rr_call, rr_log,
    \* SpecLeastConn: the backends handed to LeastConnections::next_server and
    \* what the call returned (an index, 0 for None, -1 before the call)
    lc_backends, lc_result,
    \* SpecUnrouted: the host and path of each request at the gate
    areq,
    \* SpecGen: every InnerState built so far, the last being the installed one;
    \* each request's position, the bundle it loaded and the backend it holds;
    \* the bundle the latest tick of the health monitor probed and the number of
    \* bundles at that time; the users whose payment the watcher has applied;
    \* whether a group with every backend Unhealthy, no request in flight and no
    \* monitor has been seen
    gen_bundles, gen_req, gen_tick, gen_updates, gen_dead,
    \* SpecRace: one backend, the thresholds, the place of the thread inside
    \* mark_success and of the thread inside mark_failure, the value each has
    \* read, the backend when the two calls began, and the calls made before
    race_b, race_cfg, race_pc, race_local, race_before, race_warm

cfgVars == <<health_config, retry_config>>
guardVars == <<gb, gpc, gprev, gres>>
healthVars == <<hb, lastCall, prevState, failRun, succRun, runStart, runTransitions>>
reqVars == <<rpc, rbackend, attempts, method, max_attempts>>
poolVars == <<backends, counter, budget, reqVars, probe_idx, down, failedProbes>>
budgetVars == <<bpc, bseen, battempts, upstream>>
longVars == <<qos_config, counts, lpc, lctx, ldecs>>
trackerVars == <<ttier, tcall>>
\* the parts that have a specification of their own further down
reloadVars == <<config_file, fs_event, config_updates, inner_state, new_inner, refused,
                fpc, current_inner, loads, used>>
bucketVars == <<rate_config, ktier, buckets, clock, bcall, hist>>
gateVars == <<payments_config, rate_limit_enabled, overflow_checks, subs, now_secs,
              ahdr, apath, atrace, agate, astatus>>
routerVars == <<route_configs, routes_by_host, mreq, mresult>>
groupsVars == <<proxy_config, manager_groups, group_lookup>>
shutdownVars == <<sent, sender_alive, task_enabled, tpc, tsub>>
bodyVars == <<inbound, body_bytes, body_opt, body_pc, body_attempts, body_max, sent_bodies>>
lifeVars == <<life_inner, life_file, life_quiet, life_twice, life_reloads>>
admitVars == <<adm_pc, adm_kind, adm_ctx, adm_acquired, adm_sent, adm_reject, adm_counts, adm_backend>>
roundRobinVars == <<rr_counter, rr_healthy, rr_checks, rr_pc, rr_call, rr_log>>
leastConnVars == <<lc_backends, lc_result>>
unroutedVars == <<areq>>
genVars == <<gen_bundles, gen_req, gen_tick, gen_updates, gen_dead>>
raceVars == <<race_b, race_cfg, race_pc, race_local, race_before, race_warm>>
extraVars == <<groupsVars, shutdownVars, bodyVars, lifeVars, admitVars, roundRobinVars, leastConnVars, unroutedVars, genVars, raceVars>>
laterVars == <<bucketVars, gateVars, routerVars, extraVars>>
moreVars == <<trackerVars, reloadVars, laterVars>>
scenarioVars == <<script, planned, received, answer, marks>>
vars == <<cfgVars, guardVars, healthVars, poolVars, budgetVars, longVars, moreVars,
          scenarioVars>>

\* what each part leaves alone
notGuardVars == <<cfgVars, healthVars, poolVars, budgetVars, longVars, moreVars, scenarioVars>>
notHealthVars == <<cfgVars, guardVars, poolVars, budgetVars, longVars, moreVars, scenarioVars>>
\* the parts other than the pool, and those with the scripted upstream
otherPartsVars == <<guardVars, healthVars, budgetVars, longVars, moreVars>>
notPoolVars == <<otherPartsVars, scenarioVars>>
notBudgetVars == <<cfgVars, guardVars, healthVars, longVars, moreVars, scenarioVars,
                   backends, counter, reqVars, probe_idx, down, failedProbes>>
notLongVars == <<cfgVars, guardVars, healthVars, poolVars, budgetVars, moreVars, scenarioVars>>

Threads == 1..NThreads
BudgetThreads == 1..NBudgetThreads
Conns == 1..NConns
Users == 1..NUsers
ReloadRequests == 1..NReloadRequests
Keys == 1..NKeys
GateRequests == 1..NGateRequests

(* --------------------- load_balancer/backend.rs ----------------------- *)

HealthState == {"Unknown", "Healthy", "Unhealthy"}

\* Backend::new
NewBackend(max_connections) ==
    [ max_connections       |-> max_connections,
      active_connections    |-> 0,
      state                 |-> "Unknown",
      consecutive_failures  |-> 0,
      consecutive_successes |-> 0 ]

\* a plausible slip: the guard is forgotten, its Drop never runs
dec_connections_Leak(b) == b

\* Backend::dec_connections (called by the guard's Drop)
dec_connections(b) ==
    [b EXCEPT !.active_connections = b.active_connections - 1]

\* a plausible slip: increment whatever the counter holds now, without
\* comparing it with the value the limit was checked against
compare_exchange_NoCompare(current, prev) ==
    [ok |-> TRUE, new |-> current + 1, seen |-> current]

\* active_connections.compare_exchange_weak(prev, prev + 1) when it does not
\* fail spuriously: ok and the new value, or the value seen
compare_exchange(current, prev) ==
    IF current = prev
    THEN [ok |-> TRUE, new |-> prev + 1, seen |-> current]
    ELSE [ok |-> FALSE, new |-> current, seen |-> current]

\* Backend::is_healthy
is_healthy(b) == b.state # "Unhealthy"

\* a plausible slip: a backend that was never probed (Unknown) is promoted by
\* its first success, whatever the threshold
mark_success_UnknownFirst(b, healthy_threshold) ==
    LET b1 == [b EXCEPT !.consecutive_failures = 0] IN
    IF b1.state = "Healthy"
    THEN b1
    ELSE LET successes == b1.consecutive_successes + 1
             b2 == [b1 EXCEPT !.consecutive_successes = successes]
         IN  IF successes >= healthy_threshold \/ b1.state = "Unknown"
             THEN [b2 EXCEPT !.state = "Healthy"]
             ELSE b2

\* a plausible slip: > instead of >=
mark_success_OffByOne(b, healthy_threshold) ==
    LET b1 == [b EXCEPT !.consecutive_failures = 0] IN
    IF b1.state = "Healthy"
    THEN b1
    ELSE LET successes == b1.consecutive_successes + 1
             b2 == [b1 EXCEPT !.consecutive_successes = successes]
         IN  IF successes > healthy_threshold
             THEN [b2 EXCEPT !.state = "Healthy"]
             ELSE b2

\* Backend::mark_success
mark_success(b, healthy_threshold) ==
    LET b1 == [b EXCEPT !.consecutive_failures = 0] IN
    IF b1.state = "Healthy"
    THEN b1
    ELSE LET successes == b1.consecutive_successes + 1
             b2 == [b1 EXCEPT !.consecutive_successes = successes]
         IN  IF successes >= healthy_threshold
             THEN [b2 EXCEPT !.state = "Healthy"]
             ELSE b2

\* a plausible slip: no hysteresis, the first failure evicts
mark_failure_Eager(b, unhealthy_threshold) ==
    LET b1 == [b EXCEPT !.consecutive_successes = 0] IN
    IF b1.state = "Unhealthy"
    THEN b1
    ELSE [b1 EXCEPT !.consecutive_failures = b1.consecutive_failures + 1,
                    !.state = "Unhealthy"]

\* Backend::mark_failure
mark_failure(b, unhealthy_threshold) ==
    LET b1 == [b EXCEPT !.consecutive_successes = 0] IN
    IF b1.state = "Unhealthy"
    THEN b1
    ELSE LET failures == b1.consecutive_failures + 1
             b2 == [b1 EXCEPT !.consecutive_failures = failures]
         IN  IF failures >= unhealthy_threshold
             THEN [b2 EXCEPT !.state = "Unhealthy"]
             ELSE b2

\* a plausible slip: the limit is not checked
try_create_guard_NoLimit(b) ==
    [ok |-> TRUE, backend |-> [b EXCEPT !.active_connections = b.active_connections + 1]]

\* Backend::try_create_guard as one atomic operation (SpecGuard checks its
\* steps): Some(guard) and the counter incremented, or None
try_create_guard(b) ==
    IF b.active_connections >= b.max_connections
    THEN [ok |-> FALSE, backend |-> b]
    ELSE [ok |-> TRUE, backend |-> [b EXCEPT !.active_connections = b.active_connections + 1]]

(* ------------------- load_balancer/round_robin.rs --------------------- *)

\* round_robin.rs:31-37  for i in 0..len: the first backend from position
\* (start_count + i) % len on that is_healthy, 0 for None
RECURSIVE rr_scan(_, _, _, _)
rr_scan(bs, group, start_count, i) ==
    IF i >= Len(group)
    THEN 0
    ELSE LET index == (start_count + i) % Len(group)
             b == group[index + 1]
         IN  IF is_healthy(bs[b]) THEN b ELSE rr_scan(bs, group, start_count, i + 1)

\* a plausible slip: the health filter is left out of the scan
next_server_NoFilter(bs, group, ctr) ==
    IF Len(group) = 0
    THEN [counter |-> ctr, backend |-> 0]
    ELSE [counter |-> ctr + 1, backend |-> group[(ctr % Len(group)) + 1]]

\* RoundRobin::next_server: the counter after the call and the backend
\* returned (0 for None)
next_server(bs, group, ctr) ==
    IF Len(group) = 0
    THEN [counter |-> ctr, backend |-> 0]
    ELSE [counter |-> ctr + 1, backend |-> rr_scan(bs, group, ctr, 0)]

(* ------------------------ resilience/retries.rs ----------------------- *)

\* RetryBudget::new; buffer_ratio is held in hundredths (0.1 is 10)
NewRetryBudget(ratio_pct, min_requests) ==
    [ total_requests |-> 0, total_retries |-> 0,
      buffer_ratio_pct |-> ratio_pct, min_requests |-> min_requests ]

\* RetryBudget::record_request
record_request(bud) == [bud EXCEPT !.total_requests = bud.total_requests + 1]

\* the decision of RetryBudget::can_retry on the values it loaded:
\* total < min_requests, or retries / total < buffer_ratio
retry_allowed(bud, total, retries) ==
    \/ total < bud.min_requests
    \/ retries * 100 < bud.buffer_ratio_pct * total

\* RetryBudget::can_retry run without interruption
can_retry(bud) ==
    IF retry_allowed(bud, bud.total_requests, bud.total_retries)
    THEN [ok |-> TRUE, budget |-> [bud EXCEPT !.total_retries = bud.total_retries + 1]]
    ELSE [ok |-> FALSE, budget |-> bud]

\* http::Method::is_idempotent
is_idempotent(m) == m \in {"GET", "HEAD", "PUT", "DELETE", "OPTIONS", "TRACE"}

\* is_retryable(method, status, error); status 0 stands for None
is_retryable(m, status, error) ==
    IF /\ ~is_idempotent(m) /\ m # "POST"
       /\ m # "GET" /\ m # "HEAD" /\ m # "PUT" /\ m # "DELETE"
    THEN FALSE
    ELSE IF error THEN TRUE
    ELSE status \in {502, 503, 504}

(* ------------------------- the configuration -------------------------- *)

\* RetryConfig::default (enabled, max_attempts)
DefaultRetryConfig == [enabled |-> TRUE, max_attempts |-> 3]

CfgIdle ==
    /\ health_config = [healthy_threshold |-> 1, unhealthy_threshold |-> 1]
    /\ retry_config = DefaultRetryConfig

(* ----------------------- the pool and requests ------------------------ *)

BackendIds == 1..NBackends
Requests == 1..NRequests

\* BackendManager::new: the backends of a group are kept in configuration
\* order; the model has the one group "web"
web == [i \in 1..NBackends |-> i]

\* BackendManager::all_backends
all_backends == web

\* the values of the pool's part while another specification runs
PoolRestIdle ==
    /\ backends = [b \in BackendIds |-> NewBackend(1)]
    /\ counter = 0
    /\ rpc = [r \in Requests |-> "idle"]
    /\ rbackend = [r \in Requests |-> 0]
    /\ attempts = [r \in Requests |-> 0]
    /\ method = [r \in Requests |-> "GET"]
    /\ max_attempts = [r \in Requests |-> 1]
    /\ probe_idx = 1
    /\ down = [b \in BackendIds |-> FALSE]
    /\ failedProbes = [b \in BackendIds |-> 0]

PoolIdle ==
    /\ PoolRestIdle
    /\ budget = NewRetryBudget(10, 100)

\* the values of the retry budget's requests while another specification runs
BudgetIdle ==
    /\ bpc = [t \in BudgetThreads |-> "idle"]
    /\ bseen = [t \in BudgetThreads |-> [total |-> 0, retries |-> 0]]
    /\ battempts = [t \in BudgetThreads |-> 0]
    /\ upstream = 0

\* QosConfig::default
DefaultQosConfig ==
    [tier_1_max_conns |-> 1, tier_2_max_conns |-> 10, tier_3_max_conns |-> 1000]

\* ConnectionTracker::new: counts is an empty map
NoCounts == [u \in {} |-> 0]

\* the values of the long-lived connections' part while another
\* specification runs
LongIdle ==
    /\ qos_config = DefaultQosConfig
    /\ counts = NoCounts
    /\ lpc = [c \in Conns |-> "idle"]
    /\ lctx = [c \in Conns |-> [address |-> 0, tier_id |-> 0]]
    /\ ldecs = [c \in Conns |-> 0]

NoCall == [op |-> "none", address |-> 0, had |-> FALSE, before |-> 0, ok |-> FALSE]

TrackerIdle ==
    /\ ttier = [u \in Users |-> 1]
    /\ tcall = NoCall

\* a configuration file's content: what load_config reads of it
FileContent(ver, fault) ==
    [ ver |-> ver,
      readable |-> fault # "io",
      parses |-> fault # "parse",
      groups_known |-> fault # "group",
      healthy_threshold |-> IF fault = "healthy_threshold" THEN 0 ELSE 2,
      unhealthy_threshold |-> IF fault = "unhealthy_threshold" THEN 0 ELSE 3,
      budget_ratio_pct |-> IF fault = "budget_ratio" THEN 150 ELSE 10 ]

\* HttpServer::build_inner, whole: every component is built from the one
\* configuration (0 stands for a component not built yet)
BuiltFrom(cfg) ==
    [config |-> cfg, router |-> cfg.ver, backends |-> cfg.ver,
     retry_budget |-> cfg.ver, axum_router |-> cfg.ver]

NoBundle == [config |-> FileContent(0, "none"), router |-> 0, backends |-> 0,
             retry_budget |-> 0, axum_router |-> 0]

ReloadIdle ==
    /\ config_file = FileContent(1, "none")
    /\ fs_event = FALSE
    /\ config_updates = <<>>
    /\ inner_state = BuiltFrom(FileContent(1, "none"))
    /\ new_inner = NoBundle
    /\ refused = {}
    /\ fpc = [r \in ReloadRequests |-> "idle"]
    /\ current_inner = [r \in ReloadRequests |-> NoBundle]
    /\ loads = [r \in ReloadRequests |-> 0]
    /\ used = [r \in ReloadRequests |-> {}]

\* no mark_success or mark_failure applied yet
NoOutcome == [error |-> FALSE, status |-> 0, sse |-> FALSE]
NoMarks == [n |-> 0, last |-> "none", outcome |-> NoOutcome]

\* no scripted upstream
ScenarioIdle ==
    /\ script = [r \in Requests |-> <<>>]
    /\ planned = [r \in Requests |-> 0]
    /\ received = [r \in Requests |-> 0]
    /\ answer = [r \in Requests |-> 0]
    /\ marks = [r \in Requests |-> NoMarks]

\* schema.rs:209-217, 359-370  the default limits
DefaultRateConfig ==
    [tier_1_rps |-> 10, tier_2_rps |-> 100, tier_3_rps |-> 1000,
     default_rps |-> 100, default_burst |-> 50]

\* rate_limit.rs:62  RateLimiterState::new: buckets is an empty map
NoBuckets == [k \in {} |-> 0]

NoCheck == [key |-> 0, had |-> FALSE, tokens |-> 0, elapsed |-> 0, ok |-> FALSE]
NoHist == [on |-> FALSE, key |-> 0, at |-> 0, admitted |-> 0, denied |-> FALSE,
           fresh |-> FALSE, swapped |-> FALSE]

\* no rate limiter at work
BucketIdle ==
    /\ rate_config = DefaultRateConfig
    /\ ktier = [k \in 1..NKeys |-> 0]
    /\ buckets = NoBuckets
    /\ clock = 0
    /\ bcall = NoCheck
    /\ hist = NoHist

\* schema.rs:372-381  the default payments configuration
DefaultPaymentsConfig == [enabled |-> FALSE, grace_period_secs |-> 300]

\* cache.rs:57-62  SubscriptionCache::new: an empty map
NoSubs == [a \in {} |-> 0]

NoHeader == [kind |-> "missing", address |-> 0]
NoGate == [verdict |-> "none", now |-> 0, ctx |-> [address |-> 0, tier_id |-> 0]]

\* no request at the subscription gate
GateIdle ==
    /\ payments_config = DefaultPaymentsConfig
    /\ rate_limit_enabled = FALSE
    /\ overflow_checks = FALSE
    /\ subs = NoSubs
    /\ now_secs = 0
    /\ ahdr = [r \in GateRequests |-> NoHeader]
    /\ apath = [r \in GateRequests |-> <<>>]
    /\ atrace = [r \in GateRequests |-> <<>>]
    /\ agate = [r \in GateRequests |-> NoGate]
    /\ astatus = [r \in GateRequests |-> "none"]

\* Option<String>: None, and Some(v) with v a sequence of characters
None == [some |-> FALSE, v |-> <<>>]
Some(v) == [some |-> TRUE, v |-> v]

\* router.rs:40-42  Router::new: no bucket
NoRoutes == [k \in {} |-> <<>>]

\* match_request's None
NoRoute == [id |-> 0, matcher |-> [host |-> None, prefix |-> None], backend_group |-> 0,
            priority |-> 0]

NoRequest == [host |-> None, path |-> <<>>, method |-> "GET"]

\* no route table
RouterIdle ==
    /\ route_configs = <<>>
    /\ routes_by_host = NoRoutes
    /\ mreq = NoRequest
    /\ mresult = NoRoute

NoLookup == [group |-> "none", found |-> FALSE]

\* no configuration with routes and backends
GroupsIdle ==
    /\ proxy_config = [routes |-> <<>>, backends |-> <<>>]
    /\ manager_groups = {}
    /\ group_lookup = NoLookup

\* the long-running tasks started by HttpServer::run
Tasks == {"listener", "reloader", "admin", "health_monitor", "payment_watcher"}

\* server.rs:248, 275, 296, 353, 368  the tasks that hold a Receiver; the
\* payment watcher is spawned with none (server.rs:307-309)
HasReceiver(t) == t # "payment_watcher"

\* run has not been called
ShutdownIdle ==
    /\ sent = 0
    /\ sender_alive = TRUE
    /\ task_enabled = [t \in Tasks |-> TRUE]
    /\ tpc = [t \in Tasks |-> "unspawned"]
    /\ tsub = [t \in Tasks |-> 0]

\* no request with a body
BodyIdle ==
    /\ inbound = [method |-> "GET", body |-> <<>>, read_ok |-> TRUE]
    /\ body_bytes = [some |-> FALSE, v |-> <<>>]
    /\ body_opt = [some |-> FALSE, v |-> <<>>]
    /\ body_pc = "idle"
    /\ body_attempts = 0
    /\ body_max = 1
    /\ sent_bodies = <<>>

\* the configuration of SpecLife: the routes' backend groups, the number of
\* backends of the group, retries.budget_ratio in percent
LifeConfigs == [routes : {<<"web">>, <<"web", "api">>}, backends : 1..NBackends,
                budget_ratio_pct : {10}]

\* server.rs:116-228  HttpServer::build_inner: every component is built anew
\* from the configuration; the subscription cache is loaded from the file
build_inner(config, file) ==
    [ config             |-> config,
      router             |-> config.routes,
      backends           |-> [b \in 1..config.backends |-> NewBackend(1)],
      retry_budget       |-> NewRetryBudget(config.budget_ratio_pct, 100),
      buckets            |-> [k \in {} |-> 0],
      counts             |-> [u \in {} |-> 0],
      subscription_cache |-> file,
      request_count      |-> 0 ]

\* no reload, one configuration installed at start
LifeIdle ==
    /\ life_inner = build_inner([routes |-> <<"web">>, backends |-> 1,
                                 budget_ratio_pct |-> 10], {})
    /\ life_file = {}
    /\ life_quiet = FALSE
    /\ life_twice = FALSE
    /\ life_reloads = 0

\* no request at the admission layers
AdmitIdle ==
    /\ adm_pc = [r \in Requests |-> "idle"]
    /\ adm_kind = [r \in Requests |-> "plain"]
    /\ adm_ctx = [r \in Requests |-> FALSE]
    /\ adm_acquired = [r \in Requests |-> FALSE]
    /\ adm_sent = [r \in Requests |-> FALSE]
    /\ adm_reject = [r \in Requests |-> "none"]
    /\ adm_counts = [u \in {} |-> 0]
    /\ adm_backend = NewBackend(1)

\* no caller of the round-robin balancer
RoundRobinIdle ==
    /\ rr_counter = 0
    /\ rr_healthy = [b \in 1..RrBackends |-> TRUE]
    /\ rr_checks = FALSE
    /\ rr_pc = [t \in 1..RrThreads |-> "idle"]
    /\ rr_call = [t \in 1..RrThreads |-> 0]
    /\ rr_log = <<>>

\* no call of the least-connections balancer
LeastConnIdle ==
    /\ lc_backends = <<>>
    /\ lc_result = -1

\* no request whose route is looked up behind the gate
UnroutedIdle ==
    /\ areq = [r \in GateRequests |-> NoRequest]

\* a request that has not arrived
GenNoRequest == [pc |-> "idle", bundle |-> 0, backend |-> 0]
GenNoTick == [bundle |-> 0, installed |-> 0]

\* no bundle built
GenIdle ==
    /\ gen_bundles = <<>>
    /\ gen_req = [r \in Requests |-> GenNoRequest]
    /\ gen_tick = GenNoTick
    /\ gen_updates = {}
    /\ gen_dead = FALSE

\* the two threads: one runs mark_success, the other mark_failure
RaceThreads == {"success", "failure"}

\* no call is running
RaceIdle ==
    /\ race_b = NewBackend(1)
    /\ race_cfg = [healthy_threshold |-> 1, unhealthy_threshold |-> 1]
    /\ race_pc = [t \in RaceThreads |-> "idle"]
    /\ race_local = [t \in RaceThreads |-> 0]
    /\ race_before = NewBackend(1)
    /\ race_warm = 0

ExtraIdle == GroupsIdle /\ ShutdownIdle /\ BodyIdle /\ LifeIdle /\ AdmitIdle /\ RoundRobinIdle /\ LeastConnIdle /\ UnroutedIdle /\ GenIdle /\ RaceIdle

LaterIdle == BucketIdle /\ GateIdle /\ RouterIdle /\ ExtraIdle

\* the values of the parts further down while another specification runs
MoreIdle == TrackerIdle /\ ReloadIdle /\ ScenarioIdle /\ LaterIdle

(* ------------- SpecGuard: try_create_guard, step by step -------------- *)

\* the values of the other parts while SpecGuard runs
HealthIdle ==
    /\ hb = NewBackend(1)
    /\ lastCall = "none"
    /\ prevState = "Unknown"
    /\ failRun = 0
    /\ succRun = 0
    /\ runStart = "Unknown"
    /\ runTransitions = 0

GuardIdle ==
    /\ gb = NewBackend(1)
    /\ gpc = [t \in Threads |-> "idle"]
    /\ gprev = [t \in Threads |-> 0]
    /\ gres = [t \in Threads |-> "-"]

\* what each of the parts below leaves alone, and their values while
\* another specification runs
baseVars == <<cfgVars, guardVars, healthVars, poolVars, budgetVars, longVars, trackerVars,
              reloadVars, scenarioVars, bucketVars, gateVars, routerVars>>
BaseIdle ==
    /\ CfgIdle /\ GuardIdle /\ HealthIdle /\ PoolIdle /\ BudgetIdle /\ LongIdle
    /\ TrackerIdle /\ ReloadIdle /\ ScenarioIdle /\ BucketIdle /\ GateIdle /\ RouterIdle
notGroupsVars == <<baseVars, shutdownVars, bodyVars, lifeVars, admitVars, roundRobinVars, leastConnVars, unroutedVars, genVars, raceVars>>
groupsRestVars == <<shutdownVars, bodyVars, lifeVars, admitVars, roundRobinVars, leastConnVars, unroutedVars, genVars, raceVars>>
GroupsRestIdle == ShutdownIdle /\ BodyIdle /\ LifeIdle /\ AdmitIdle /\ RoundRobinIdle /\ LeastConnIdle /\ UnroutedIdle /\ GenIdle /\ RaceIdle
GroupsOthersIdle == BaseIdle /\ GroupsRestIdle
notShutdownVars == <<baseVars, groupsVars, bodyVars, lifeVars, admitVars, roundRobinVars, leastConnVars, unroutedVars, genVars, raceVars>>
shutdownRestVars == <<groupsVars, bodyVars, lifeVars, admitVars, roundRobinVars, leastConnVars, unroutedVars, genVars, raceVars>>
ShutdownRestIdle == GroupsIdle /\ BodyIdle /\ LifeIdle /\ AdmitIdle /\ RoundRobinIdle /\ LeastConnIdle /\ UnroutedIdle /\ GenIdle /\ RaceIdle
ShutdownOthersIdle == BaseIdle /\ ShutdownRestIdle
notBodyVars == <<baseVars, groupsVars, shutdownVars, lifeVars, admitVars, roundRobinVars, leastConnVars, unroutedVars, genVars, raceVars>>
bodyRestVars == <<groupsVars, shutdownVars, lifeVars, admitVars, roundRobinVars, leastConnVars, unroutedVars, genVars, raceVars>>
BodyRestIdle == GroupsIdle /\ ShutdownIdle /\ LifeIdle /\ AdmitIdle /\ RoundRobinIdle /\ LeastConnIdle /\ UnroutedIdle /\ GenIdle /\ RaceIdle
BodyOthersIdle == BaseIdle /\ BodyRestIdle
notLifeVars == <<baseVars, groupsVars, shutdownVars, bodyVars, admitVars, roundRobinVars, leastConnVars, unroutedVars, genVars, raceVars>>
lifeRestVars == <<groupsVars, shutdownVars, bodyVars, admitVars, roundRobinVars, leastConnVars, unroutedVars, genVars, raceVars>>
LifeRestIdle == GroupsIdle /\ ShutdownIdle /\ BodyIdle /\ AdmitIdle /\ RoundRobinIdle /\ LeastConnIdle /\ UnroutedIdle /\ GenIdle /\ RaceIdle
LifeOthersIdle == BaseIdle /\ LifeRestIdle
notAdmitVars == <<baseVars, groupsVars, shutdownVars, bodyVars, lifeVars, roundRobinVars, leastConnVars, unroutedVars, genVars, raceVars>>
admitRestVars == <<groupsVars, shutdownVars, bodyVars, lifeVars, roundRobinVars, leastConnVars, unroutedVars, genVars, raceVars>>
AdmitRestIdle == GroupsIdle /\ ShutdownIdle /\ BodyIdle /\ LifeIdle /\ RoundRobinIdle /\ LeastConnIdle /\ UnroutedIdle /\ GenIdle /\ RaceIdle
AdmitOthersIdle == BaseIdle /\ AdmitRestIdle
notRoundRobinVars == <<baseVars, groupsVars, shutdownVars, bodyVars, lifeVars, admitVars, leastConnVars, unroutedVars, genVars, raceVars>>
roundRobinRestVars == <<groupsVars, shutdownVars, bodyVars, lifeVars, admitVars, leastConnVars, unroutedVars, genVars, raceVars>>
RoundRobinRestIdle == GroupsIdle /\ ShutdownIdle /\ BodyIdle /\ LifeIdle /\ AdmitIdle /\ LeastConnIdle /\ UnroutedIdle /\ GenIdle /\ RaceIdle
RoundRobinOthersIdle == BaseIdle /\ RoundRobinRestIdle
notLeastConnVars == <<baseVars, groupsVars, shutdownVars, bodyVars, lifeVars, admitVars, roundRobinVars, unroutedVars, genVars, raceVars>>
leastConnRestVars == <<groupsVars, shutdownVars, bodyVars, lifeVars, admitVars, roundRobinVars, unroutedVars, genVars, raceVars>>
LeastConnRestIdle == GroupsIdle /\ ShutdownIdle /\ BodyIdle /\ LifeIdle /\ AdmitIdle /\ RoundRobinIdle /\ UnroutedIdle /\ GenIdle /\ RaceIdle
LeastConnOthersIdle == BaseIdle /\ LeastConnRestIdle
notUnroutedVars == <<baseVars, groupsVars, shutdownVars, bodyVars, lifeVars, admitVars, roundRobinVars, leastConnVars, genVars, raceVars>>
unroutedRestVars == <<groupsVars, shutdownVars, bodyVars, lifeVars, admitVars, roundRobinVars, leastConnVars, genVars, raceVars>>
UnroutedRestIdle == GroupsIdle /\ ShutdownIdle /\ BodyIdle /\ LifeIdle /\ AdmitIdle /\ RoundRobinIdle /\ LeastConnIdle /\ GenIdle /\ RaceIdle
UnroutedOthersIdle == BaseIdle /\ UnroutedRestIdle
notGenVars == <<baseVars, groupsVars, shutdownVars, bodyVars, lifeVars, admitVars, roundRobinVars, leastConnVars, unroutedVars, raceVars>>
genRestVars == <<groupsVars, shutdownVars, bodyVars, lifeVars, admitVars, roundRobinVars, leastConnVars, unroutedVars, raceVars>>
GenRestIdle == GroupsIdle /\ ShutdownIdle /\ BodyIdle /\ LifeIdle /\ AdmitIdle /\ RoundRobinIdle /\ LeastConnIdle /\ UnroutedIdle /\ RaceIdle
GenOthersIdle == BaseIdle /\ GenRestIdle
notRaceVars == <<baseVars, groupsVars, shutdownVars, bodyVars, lifeVars, admitVars, roundRobinVars, leastConnVars, unroutedVars, genVars>>
raceRestVars == <<groupsVars, shutdownVars, bodyVars, lifeVars, admitVars, roundRobinVars, leastConnVars, unroutedVars, genVars>>
RaceRestIdle == GroupsIdle /\ ShutdownIdle /\ BodyIdle /\ LifeIdle /\ AdmitIdle /\ RoundRobinIdle /\ LeastConnIdle /\ UnroutedIdle /\ GenIdle
RaceOthersIdle == BaseIdle /\ RaceRestIdle
\* (end of the parts' frames)

InitGuard ==
    /\ \E m \in 1..MaxConnections : gb = NewBackend(m)
    /\ gpc = [t \in Threads |-> "idle"]
    /\ gprev = [t \in Threads |-> 0]
    /\ gres = [t \in Threads |-> "-"]
    /\ CfgIdle
    /\ HealthIdle
    /\ PoolIdle
    /\ BudgetIdle
    /\ LongIdle
    /\ MoreIdle

\* backend.rs:86  let mut prev = self.active_connections.load(Relaxed)
TcgLoad(t) ==
    /\ gpc[t] = "idle"
    /\ gpc' = [gpc EXCEPT ![t] = "loop"]
    /\ gprev' = [gprev EXCEPT ![t] = gb.active_connections]
    /\ gres' = [gres EXCEPT ![t] = "-"]
    /\ UNCHANGED <<gb, notGuardVars>>

\* backend.rs:88-90  if prev >= self.max_connections { return None }
TcgSaturated(t) ==
    /\ gpc[t] = "loop"
    /\ gprev[t] >= gb.max_connections
    /\ gpc' = [gpc EXCEPT ![t] = "idle"]
    /\ gres' = [gres EXCEPT ![t] = "None"]
    /\ UNCHANGED <<gb, gprev, notGuardVars>>

\* backend.rs:91-100  one compare_exchange_weak: Ok breaks out of the loop and
\* the guard is returned; Err(x) retries with prev = x
TcgCas(t) ==
    /\ gpc[t] = "loop"
    /\ gprev[t] < gb.max_connections
    /\ LET r == compare_exchange(gb.active_connections, gprev[t]) IN
       IF r.ok
       THEN /\ gb' = [gb EXCEPT !.active_connections = r.new]
            /\ gpc' = [gpc EXCEPT ![t] = "guard"]
            /\ gres' = [gres EXCEPT ![t] = "Some"]
            /\ UNCHANGED gprev
       ELSE /\ gprev' = [gprev EXCEPT ![t] = r.seen]
            /\ UNCHANGED <<gb, gpc, gres>>
    /\ UNCHANGED notGuardVars

\* backend.rs:165-169  Drop for BackendConnectionGuard
GuardDrop(t) ==
    /\ gpc[t] = "guard"
    /\ gb' = dec_connections(gb)
    /\ gpc' = [gpc EXCEPT ![t] = "idle"]
    /\ UNCHANGED <<gprev, gres, notGuardVars>>

NextGuard ==
    \E t \in Threads : TcgLoad(t) \/ TcgSaturated(t) \/ TcgCas(t) \/ GuardDrop(t)

SpecGuard == InitGuard /\ [][NextGuard]_vars

Guards == {t \in Threads : gpc[t] = "guard"}

\* C1: in every reachable state, under any interleaving of the atomic steps
\* of concurrent try_create_guard calls and of guard drops, the backend's
\* active_connections stays within max_connections (and counts the guards
\* that exist); a call that returns None has changed nothing.
C1_ActiveWithinMax ==
    /\ gb.active_connections <= gb.max_connections
    /\ gb.active_connections = Cardinality(Guards)

\* C1's case: the backend is saturated by guards held by two requests and a
\* third request's try_create_guard has returned None
C1_Witness ==
    /\ gb.max_connections = 2
    /\ Cardinality(Guards) = 2
    /\ \E t \in Threads : gpc[t] = "idle" /\ gres[t] = "None"

(* ------- SpecHealth: sequences of mark_success / mark_failure --------- *)

\* the history counters stop counting here, above every threshold
RunCap == MaxThreshold + 2

Capped(n) == IF n < RunCap THEN n ELSE RunCap

\* config.health_check thresholds; validate_config rejects 0
HealthConfigs ==
    [healthy_threshold : 1..MaxThreshold, unhealthy_threshold : 1..MaxThreshold]

InitHealth ==
    /\ hb = NewBackend(1)
    /\ health_config \in HealthConfigs
    /\ retry_config = DefaultRetryConfig
    /\ lastCall = "none"
    /\ prevState = "Unknown"
    /\ failRun = 0
    /\ succRun = 0
    /\ runStart = "Unknown"
    /\ runTransitions = 0
    /\ GuardIdle
    /\ PoolIdle
    /\ BudgetIdle
    /\ LongIdle
    /\ MoreIdle

\* a call backend.mark_success(healthy_threshold), as the health monitor
\* (active.rs:110) and proxy_handler (server.rs:568,572) make it
MarkSuccessCall ==
    /\ hb' = mark_success(hb, health_config.healthy_threshold)
    /\ lastCall' = "success"
    /\ prevState' = hb.state
    /\ succRun' = Capped(succRun + 1)
    /\ failRun' = 0
    /\ runTransitions' = IF hb'.state # hb.state
                          THEN Capped(runTransitions + 1) ELSE runTransitions
    /\ UNCHANGED <<runStart, notHealthVars>>

\* a call backend.mark_failure(unhealthy_threshold), as the health monitor
\* (active.rs:112) and proxy_handler (server.rs:565,592) make it
MarkFailureCall ==
    /\ hb' = mark_failure(hb, health_config.unhealthy_threshold)
    /\ lastCall' = "failure"
    /\ prevState' = hb.state
    /\ failRun' = Capped(failRun + 1)
    /\ succRun' = 0
    /\ runStart' = hb'.state
    /\ runTransitions' = 0
    /\ UNCHANGED notHealthVars

NextHealth == MarkSuccessCall \/ MarkFailureCall

SpecHealth == InitHealth /\ [][NextHealth]_vars

\* the last call changed the health state
Transitioned == lastCall # "none" /\ hb.state # prevState

\* C5: every health state transition (to Healthy or to Unhealthy) leaves
\* both counters at zero: right after a mark_success or mark_failure call
\* that changed the state, consecutive_failures + consecutive_successes = 0.
C5_CountersZeroOnTransition ==
    Transitioned => hb.consecutive_failures + hb.consecutive_successes = 0

\* C6 as claimed: mark_success on a backend in state Unknown or Healthy
\* leaves it Healthy, on the first success, for every healthy_threshold >= 1.
C6_FirstSuccessHealthy ==
    (lastCall = "success" /\ prevState \in {"Unknown", "Healthy"})
        => hb.state = "Healthy"

\* C6 as amended: mark_success keeps a Healthy backend Healthy; a backend in
\* state Unknown becomes Healthy exactly at the mark_success call that is the
\* healthy_threshold-th consecutive success (the first one only when
\* healthy_threshold = 1) and stays Unknown before it, as an Unhealthy one
\* stays Unhealthy.
C6_UnknownNeedsThreshold ==
    lastCall = "success" =>
        /\ prevState = "Healthy" => hb.state = "Healthy"
        /\ prevState = "Unknown" =>
              IF succRun >= health_config.healthy_threshold
              THEN hb.state = "Healthy"
              ELSE hb.state = "Unknown"
        /\ prevState = "Unhealthy" =>
              IF succRun >= health_config.healthy_threshold
              THEN hb.state = "Healthy"
              ELSE hb.state = "Unhealthy"

\* C6's case: with healthy_threshold = 2 a first success has left the
\* backend Unknown
C6_Witness ==
    /\ health_config.healthy_threshold = 2
    /\ lastCall = "success" /\ prevState = "Unknown"
    /\ succRun = 1 /\ hb.state = "Unknown"

\* C7: hysteresis of eviction. A backend that is Healthy or Unknown becomes
\* Unhealthy exactly at the mark_failure call that brings the number of
\* mark_failure calls since the last mark_success to unhealthy_threshold,
\* never with fewer; a mark_success restarts the count from zero.
C7_Hysteresis ==
    /\ (lastCall = "failure" /\ Transitioned)
          => (hb.state = "Unhealthy" /\ failRun = health_config.unhealthy_threshold)
    /\ failRun >= health_config.unhealthy_threshold => hb.state = "Unhealthy"
    /\ hb.state # "Unhealthy" => hb.consecutive_failures = failRun
    /\ lastCall = "success" => hb.consecutive_failures = 0

\* C7's case: a Healthy backend has just been evicted by the second of two
\* consecutive failures, with unhealthy_threshold = 2
C7_Witness ==
    /\ health_config.unhealthy_threshold = 2
    /\ lastCall = "failure" /\ prevState = "Healthy"
    /\ hb.state = "Unhealthy" /\ failRun = 2

\* C8: starting from an Unhealthy backend, consecutive mark_success calls
\* (no mark_failure in between) cause exactly one state transition, to
\* Healthy, at the healthy_threshold-th call and not earlier; further
\* successes cause no more transitions.
C8_OneTransitionToHealthy ==
    (runStart = "Unhealthy" /\ succRun >= 1) =>
        IF succRun < health_config.healthy_threshold
        THEN hb.state = "Unhealthy" /\ runTransitions = 0
        ELSE hb.state = "Healthy" /\ runTransitions = 1

\* C8's case: an Unhealthy backend has received more than healthy_threshold
\* (here 2) consecutive successes
C8_Witness ==
    /\ health_config.healthy_threshold = 2
    /\ runStart = "Unhealthy" /\ succRun > 2
    /\ hb.state = "Healthy" /\ runTransitions = 1

(* --------- Spec: requests, pool selection and health probes ----------- *)

\* config.health_check thresholds of the running proxy
PoolHealthConfigs ==
    [healthy_threshold : 1..PoolMaxThreshold, unhealthy_threshold : 1..PoolMaxThreshold]

\* config.retries: enabled, with MaxAttempts attempts (a POST is never
\* retried, as no request is when retries are disabled)
RetryConfigs == [enabled : {TRUE}, max_attempts : {MaxAttempts}]

\* HttpServer::build_inner: the pool and the retry budget are built from the
\* configuration; every backend starts Unknown with no connection
Init ==
    /\ health_config \in PoolHealthConfigs
    /\ retry_config \in RetryConfigs
    /\ \E m \in 1..MaxConnections : backends = [b \in BackendIds |-> NewBackend(m)]
    /\ counter = 0
    /\ budget = NewRetryBudget(10, 100)
    /\ rpc = [r \in Requests |-> "idle"]
    /\ rbackend = [r \in Requests |-> 0]
    /\ attempts = [r \in Requests |-> 0]
    /\ method = [r \in Requests |-> "GET"]
    /\ max_attempts = [r \in Requests |-> 1]
    /\ probe_idx = 1
    /\ down = [b \in BackendIds |-> FALSE]
    /\ failedProbes = [b \in BackendIds |-> 0]
    /\ GuardIdle
    /\ HealthIdle
    /\ BudgetIdle
    /\ LongIdle
    /\ MoreIdle

\* the handler returns: its locals are gone
Returned(r, how) ==
    /\ rpc' = [rpc EXCEPT ![r] = how]
    /\ rbackend' = [rbackend EXCEPT ![r] = 0]
    /\ attempts' = [attempts EXCEPT ![r] = 0]
    /\ method' = [method EXCEPT ![r] = "GET"]
    /\ max_attempts' = [max_attempts EXCEPT ![r] = 1]

\* a plausible slip: the method and the body are not looked at
attempts_allowed_AnyMethod(cfg, m, body_buffered) ==
    IF cfg.enabled THEN cfg.max_attempts ELSE 1

\* server.rs:462-466  the attempts a request may make
attempts_allowed(cfg, m, body_buffered) ==
    IF cfg.enabled /\ (body_buffered \/ m = "GET" \/ m = "HEAD")
    THEN cfg.max_attempts
    ELSE 1

\* server.rs:446-466  a routed and admitted request reaches forwarding: the
\* body is buffered when retries are enabled and the method is idempotent
\* (to_bytes may fail), the budget's denominator is incremented, attempts = 0
Start(r, m, to_bytes_ok) ==
    LET body_buffered == retry_config.enabled /\ is_idempotent(m) /\ to_bytes_ok IN
    /\ rpc[r] = "idle"
    /\ method' = [method EXCEPT ![r] = m]
    /\ max_attempts' = [max_attempts EXCEPT ![r] =
                           attempts_allowed(retry_config, m, body_buffered)]
    /\ budget' = record_request(budget)
    /\ attempts' = [attempts EXCEPT ![r] = 0]
    /\ rpc' = [rpc EXCEPT ![r] = "loop"]
    /\ UNCHANGED <<backends, counter, rbackend, probe_idx, down, failedProbes,
                   cfgVars, notPoolVars>>

\* a request of either kind arrives, its body readable or not
StartRequest(r) ==
    \E m \in {"GET", "POST"}, to_bytes_ok \in BOOLEAN : Start(r, m, to_bytes_ok)

\* server.rs:469-471, pool.rs:57-60  attempts += 1 and the first half of
\* BackendManager::get: the load balancer picks a backend, or there is none
\* and the request is answered 503 ("unavailable")
NextServer(r) ==
    /\ rpc[r] = "loop"
    /\ LET pick == next_server(backends, web, counter) IN
       /\ counter' = pick.counter
       /\ IF pick.backend = 0
          THEN Returned(r, "unavailable")
          ELSE /\ rpc' = [rpc EXCEPT ![r] = "picked"]
               /\ rbackend' = [rbackend EXCEPT ![r] = pick.backend]
               /\ attempts' = [attempts EXCEPT ![r] = attempts[r] + 1]
               /\ UNCHANGED <<method, max_attempts>>
    /\ UNCHANGED <<backends, budget, probe_idx, down,
                   failedProbes, cfgVars, notPoolVars>>

\* pool.rs:61, server.rs:471-478  the second half of BackendManager::get:
\* try_create_guard on the backend picked; None is answered 503
TryCreateGuard(r) ==
    /\ rpc[r] = "picked"
    /\ LET g == try_create_guard(backends[rbackend[r]]) IN
       IF g.ok
       THEN /\ backends' = [backends EXCEPT ![rbackend[r]] = g.backend]
            /\ rpc' = [rpc EXCEPT ![r] = "guard"]
            /\ UNCHANGED <<rbackend, attempts, method, max_attempts>>
       ELSE /\ Returned(r, "unavailable")
            /\ UNCHANGED backends
    /\ UNCHANGED <<counter, budget, probe_idx, down, failedProbes, cfgVars, notPoolVars>>

\* server.rs:480-526  the outbound request is built and handed to the client:
\* the attempt is sent to the backend of the guard
SendAttempt(r) ==
    /\ rpc[r] = "guard"
    /\ rpc' = [rpc EXCEPT ![r] = "sent"]
    /\ UNCHANGED <<backends, counter, budget, rbackend, attempts, method,
                   max_attempts, probe_idx, down, failedProbes,
                   cfgVars, notPoolVars>>

\* what a backend answers to an attempt: a server that is down answers 500 to
\* everything; otherwise a response (200, 500, 503) or a transport error
Outcomes(b) ==
    IF down[b]
    THEN {[error |-> FALSE, status |-> 500]}
    ELSE {[error |-> FALSE, status |-> 200], [error |-> FALSE, status |-> 500],
          [error |-> FALSE, status |-> 503], [error |-> TRUE, status |-> 0]}

\* server.rs:562-573, 592  the health mark of an attempt that is not retried
classify(b, o) ==
    IF o.error \/ o.status \in {502, 503, 504}
    THEN mark_failure(b, health_config.unhealthy_threshold)
    ELSE mark_success(b, health_config.healthy_threshold)

\* a plausible slip: the last permitted attempt is not made
retry_gate_OffByOne(n, max, m, o) ==
    n + 1 < max /\ is_retryable(m, o.status, o.error)

\* server.rs:531-532, 580-581  attempts < max_attempts && is_retryable(..)
retry_gate(n, max, m, o) ==
    n < max /\ is_retryable(m, o.status, o.error)

\* server.rs:526-595  the attempt's outcome o arrives. It is retried when
\* attempts < max_attempts, is_retryable and can_retry (the guard is kept
\* through the backoff sleep); otherwise the backend is marked, the guard is
\* dropped and the response (502 for a transport error) is returned ("done")
Respond(r, o) ==
    LET b == rbackend[r]
        gate == retry_gate(attempts[r], max_attempts[r], method[r], o)
        cr == can_retry(budget)
    IN  IF gate /\ cr.ok
        THEN /\ budget' = cr.budget
             /\ rpc' = [rpc EXCEPT ![r] = "backoff"]
             /\ UNCHANGED <<backends, rbackend, attempts, method, max_attempts>>
        ELSE /\ budget' = budget
             /\ backends' = [backends EXCEPT ![b] = dec_connections(classify(backends[b], o))]
             /\ Returned(r, "done")

\* the upstream answers the attempt, with any of the outcomes it can give
HandleOutcome(r) ==
    /\ rpc[r] = "sent"
    /\ \E o \in Outcomes(rbackend[r]) : Respond(r, o)
    /\ UNCHANGED <<counter, probe_idx, down, failedProbes, cfgVars, notPoolVars>>

\* a plausible slip: the budget's denominator is counted on every pass of the
\* attempt loop
ContinueLoop_Counted(r) ==
    /\ rpc[r] = "backoff"
    /\ backends' = [backends EXCEPT ![rbackend[r]] = dec_connections(backends[rbackend[r]])]
    /\ rpc' = [rpc EXCEPT ![r] = "loop"]
    /\ budget' = record_request(budget)
    /\ UNCHANGED <<counter, rbackend, attempts, method, max_attempts,
                   probe_idx, down, failedProbes, cfgVars, notPoolVars>>

\* server.rs:538-539, 586-587  the backoff sleep ends and the loop continues:
\* the guard of the attempt is dropped
ContinueLoop(r) ==
    /\ rpc[r] = "backoff"
    /\ backends' = [backends EXCEPT ![rbackend[r]] = dec_connections(backends[rbackend[r]])]
    /\ rpc' = [rpc EXCEPT ![r] = "loop"]
    /\ UNCHANGED <<counter, budget, rbackend, attempts, method, max_attempts,
                   probe_idx, down, failedProbes, cfgVars, notPoolVars>>

\* active.rs:67-118  one pass of the loop of HealthMonitor::check_all: the
\* next backend of all_backends is probed; a 2xx answer is mark_success and
\* anything else mark_failure. A server that is down fails every probe.
CheckBackend ==
    LET b == all_backends[probe_idx] IN
    /\ \E healthy \in (IF down[b] THEN {FALSE} ELSE BOOLEAN) :
         /\ backends' = [backends EXCEPT ![b] =
                IF healthy
                THEN mark_success(backends[b], health_config.healthy_threshold)
                ELSE mark_failure(backends[b], health_config.unhealthy_threshold)]
         /\ failedProbes' = [failedProbes EXCEPT ![b] =
                IF down[b] /\ failedProbes[b] < health_config.unhealthy_threshold
                THEN failedProbes[b] + 1 ELSE failedProbes[b]]
    /\ probe_idx' = (probe_idx % Len(all_backends)) + 1
    /\ UNCHANGED <<counter, budget, reqVars, down, cfgVars, notPoolVars>>

\* the environment: from now on the server behind backend b answers 500 to
\* everything (one server of the group fails, the others stay up)
ServerGoesDown(b) ==
    /\ \A c \in BackendIds : ~down[c]
    /\ down' = [down EXCEPT ![b] = TRUE]
    /\ UNCHANGED <<backends, counter, budget, reqVars, probe_idx, failedProbes,
                   cfgVars, notPoolVars>>

Next ==
    \/ \E r \in Requests :
          \/ StartRequest(r)
          \/ NextServer(r)
          \/ TryCreateGuard(r)
          \/ SendAttempt(r)
          \/ HandleOutcome(r)
          \/ ContinueLoop(r)
    \/ CheckBackend
    \/ \E b \in BackendIds : ServerGoesDown(b)

Spec == Init /\ [][Next]_vars

\* the request moved from one place of proxy_handler to another in this step
Moved(r, from, to) == rpc[r] = from /\ rpc'[r] = to

\* C2 as claimed: no attempt is sent to a backend that is Unhealthy at the
\* moment the attempt is sent, whatever health probes and other requests'
\* marks did since BackendManager::get returned it.
C2_NeverSentToUnhealthy ==
    [][\A r \in Requests :
          Moved(r, "guard", "sent") => backends[rbackend[r]].state # "Unhealthy"]_vars

\* C2 as amended: the backend of every attempt was not Unhealthy when
\* next_server checked it (is_healthy) in the BackendManager::get call of
\* that attempt; nothing is promised about its state at the later moment the
\* attempt is sent.
C2_NotUnhealthyWhenSelected ==
    [][\A r \in Requests :
          Moved(r, "loop", "picked") => backends[rbackend'[r]].state # "Unhealthy"]_vars

\* C2's case: an attempt has been sent to a backend that a probe or another
\* request's mark_failure made Unhealthy after it was selected
C2_Witness ==
    \E r \in Requests : rpc[r] = "sent" /\ backends[rbackend[r]].state = "Unhealthy"

\* some backend of the group is selectable and has a free connection slot
Available ==
    \E i \in 1..Len(web) :
        /\ is_healthy(backends[web[i]])
        /\ backends[web[i]].active_connections < backends[web[i]].max_connections

\* C3: BackendManager::get returns None (the request is answered 503) only
\* when no backend of the group is both selectable and unsaturated: whenever
\* one is, get returns a guard.
C3_NoneOnlyWhenNoneAvailable ==
    [][\A r \in Requests :
          (Moved(r, "loop", "unavailable") \/ Moved(r, "picked", "unavailable"))
              => ~Available]_vars

\* C4: a backend whose server fails every probe is Unhealthy once
\* unhealthy_threshold probes have failed since the server went down, and
\* stays out of selection from then on, whatever client traffic does.
C4_EvictedWithinThreshold ==
    \A b \in BackendIds :
        (down[b] /\ failedProbes[b] >= health_config.unhealthy_threshold)
            => backends[b].state = "Unhealthy"


(* ------- SpecBudget: the retry budget under concurrent requests ------- *)

\* RetryBudget::new(buffer_ratio, min_requests): the ratios are 0, 0.5 and 1
\* (exact as f32), in hundredths
InitBudget ==
    /\ \E ratio_pct \in {0, 50, 100}, min_requests \in 0..MaxMinRequests :
         budget = NewRetryBudget(ratio_pct, min_requests)
    /\ bpc = [t \in BudgetThreads |-> "idle"]
    /\ bseen = [t \in BudgetThreads |-> [total |-> 0, retries |-> 0]]
    /\ battempts = [t \in BudgetThreads |-> 0]
    /\ upstream = 0
    /\ CfgIdle
    /\ GuardIdle
    /\ HealthIdle
    /\ PoolRestIdle
    /\ LongIdle
    /\ MoreIdle

\* server.rs:459-461  retry_budget.record_request(); attempts = 0
BudgetRecordRequest(t) ==
    /\ bpc[t] = "idle"
    /\ budget.total_requests < MaxBudgetRequests
    /\ budget' = record_request(budget)
    /\ battempts' = [battempts EXCEPT ![t] = 0]
    /\ bpc' = [bpc EXCEPT ![t] = "attempt"]
    /\ UNCHANGED <<bseen, upstream, notBudgetVars>>

\* server.rs:469-526  attempts += 1, and the attempt is sent upstream
BudgetSendAttempt(t) ==
    /\ bpc[t] = "attempt"
    /\ battempts' = [battempts EXCEPT ![t] = battempts[t] + 1]
    /\ upstream' = upstream + 1
    /\ bpc' = [bpc EXCEPT ![t] = "response"]
    /\ UNCHANGED <<budget, bseen, notBudgetVars>>

\* server.rs:527-533  the response of a GET arrives: can_retry() is called
\* when attempts < max_attempts and the status is retryable, otherwise the
\* response is returned
BudgetResponse(t) ==
    /\ bpc[t] = "response"
    /\ \E status \in {200, 503} :
         IF battempts[t] < retry_config.max_attempts /\ is_retryable("GET", status, FALSE)
         THEN /\ bpc' = [bpc EXCEPT ![t] = "load_total"]
              /\ UNCHANGED battempts
         ELSE /\ bpc' = [bpc EXCEPT ![t] = "idle"]
              /\ battempts' = [battempts EXCEPT ![t] = 0]
    /\ UNCHANGED <<budget, bseen, upstream, notBudgetVars>>

\* retries.rs:39  let total = self.total_requests.load()
CanRetryLoadTotal(t) ==
    /\ bpc[t] = "load_total"
    /\ bseen' = [bseen EXCEPT ![t].total = budget.total_requests]
    /\ bpc' = [bpc EXCEPT ![t] = "load_retries"]
    /\ UNCHANGED <<budget, battempts, upstream, notBudgetVars>>

\* retries.rs:40  let retries = self.total_retries.load()
CanRetryLoadRetries(t) ==
    /\ bpc[t] = "load_retries"
    /\ bseen' = [bseen EXCEPT ![t].retries = budget.total_retries]
    /\ bpc' = [bpc EXCEPT ![t] = "decide"]
    /\ UNCHANGED <<budget, battempts, upstream, notBudgetVars>>

\* retries.rs:42-56, server.rs:536-539  the decision on the loaded values:
\* total_retries.fetch_add(1) and the request retries, or the response is
\* returned
CanRetryDecide(t) ==
    /\ bpc[t] = "decide"
    /\ IF retry_allowed(budget, bseen[t].total, bseen[t].retries)
       THEN /\ budget' = [budget EXCEPT !.total_retries = budget.total_retries + 1]
            /\ bpc' = [bpc EXCEPT ![t] = "attempt"]
            /\ UNCHANGED battempts
       ELSE /\ bpc' = [bpc EXCEPT ![t] = "idle"]
            /\ battempts' = [battempts EXCEPT ![t] = 0]
            /\ UNCHANGED budget
    /\ bseen' = [bseen EXCEPT ![t] = [total |-> 0, retries |-> 0]]
    /\ UNCHANGED <<upstream, notBudgetVars>>

NextBudget ==
    \E t \in BudgetThreads :
        \/ BudgetRecordRequest(t)
        \/ BudgetSendAttempt(t)
        \/ BudgetResponse(t)
        \/ CanRetryLoadTotal(t)
        \/ CanRetryLoadRetries(t)
        \/ CanRetryDecide(t)

SpecBudget == InitBudget /\ [][NextBudget]_vars

\* C9: once total_requests exceeds min_requests, the upstream attempts sent
\* are at most total_requests * (1 + buffer_ratio), the retries granted below
\* the min_requests floor and by concurrent can_retry calls included.
C9_AttemptsWithinBudget ==
    budget.total_requests > budget.min_requests
        => upstream * 100 <= budget.total_requests * (100 + budget.buffer_ratio_pct)


(* ---- SpecLongLived: ConnectionTracker, WebSocket and SSE sessions ---- *)

\* HashMap::insert
Insert(map, key, value) ==
    [k \in DOMAIN map \cup {key} |-> IF k = key THEN value ELSE map[k]]

\* qos.rs:26-31  the connection limit of a tier
tier_limit(qos, tier_id) ==
    CASE tier_id = 1 -> qos.tier_1_max_conns
      [] tier_id = 2 -> qos.tier_2_max_conns
      [] tier_id = 3 -> qos.tier_3_max_conns
      [] OTHER -> qos.tier_1_max_conns

\* a plausible slip: the limit is compared with <=
try_increment_Inclusive(cnts, qos, address, tier_id) ==
    LET current == IF address \in DOMAIN cnts THEN cnts[address] ELSE 0 IN
    IF current <= tier_limit(qos, tier_id)
    THEN [ok |-> TRUE, counts |-> Insert(cnts, address, current + 1)]
    ELSE [ok |-> FALSE, counts |-> Insert(cnts, address, current)]

\* ConnectionTracker::try_increment(address, tier_id), under the mutex:
\* counts.entry(address).or_insert(0) makes the entry in either case
try_increment(cnts, qos, address, tier_id) ==
    LET current == IF address \in DOMAIN cnts THEN cnts[address] ELSE 0 IN
    IF current < tier_limit(qos, tier_id)
    THEN [ok |-> TRUE, counts |-> Insert(cnts, address, current + 1)]
    ELSE [ok |-> FALSE, counts |-> Insert(cnts, address, current)]

\* ConnectionTracker::decrement(address), under the mutex: nothing without
\* an entry or at 0
decrement(cnts, address) ==
    IF address \in DOMAIN cnts /\ cnts[address] > 0
    THEN [cnts EXCEPT ![address] = cnts[address] - 1]
    ELSE cnts

\* the UserContext of a request: an address and a tier, or None (address 0)
\* when the request carries no user context
NoUserContext == [address |-> 0, tier_id |-> 0]
UserContexts == [address : Users, tier_id : {1, 2}] \cup {NoUserContext}

QosConfigs ==
    [tier_1_max_conns : 1..MaxTierConns, tier_2_max_conns : {MaxTierConns},
     tier_3_max_conns : {MaxTierConns}]

InitLongLived ==
    /\ qos_config \in QosConfigs
    /\ counts = NoCounts
    /\ lpc = [c \in Conns |-> "idle"]
    /\ lctx = [c \in Conns |-> NoUserContext]
    /\ ldecs = [c \in Conns |-> 0]
    /\ CfgIdle
    /\ GuardIdle
    /\ HealthIdle
    /\ PoolIdle
    /\ BudgetIdle
    /\ MoreIdle

\* a long-lived connection is admitted: try_increment when the request has a
\* user context; over the limit it is answered 429 ("rejected")
Admit(c, ctx, admitted) ==
    IF ctx = NoUserContext
    THEN /\ lpc' = [lpc EXCEPT ![c] = admitted]
         /\ UNCHANGED <<counts, lctx>>
    ELSE LET res == try_increment(counts, qos_config, ctx.address, ctx.tier_id) IN
         /\ counts' = res.counts
         /\ IF res.ok
            THEN /\ lpc' = [lpc EXCEPT ![c] = admitted]
                 /\ lctx' = [lctx EXCEPT ![c] = ctx]
            ELSE /\ lpc' = [lpc EXCEPT ![c] = "rejected"]
                 /\ UNCHANGED lctx

\* the connection ends with the decrement its owner makes: tracker.decrement
\* when it was counted
Release(c) ==
    /\ lpc' = [lpc EXCEPT ![c] = "closed"]
    /\ IF lctx[c] = NoUserContext
       THEN UNCHANGED <<counts, ldecs>>
       ELSE /\ counts' = decrement(counts, lctx[c].address)
            /\ ldecs' = [ldecs EXCEPT ![c] = ldecs[c] + 1]

\* websocket.rs:28-53  handle_ws_upgrade up to its return: the limit check,
\* then the 101 response with the on_upgrade callback registered
HandleWsUpgrade(c) ==
    /\ lpc[c] = "idle"
    /\ \E ctx \in UserContexts : Admit(c, ctx, "upgrading")
    /\ UNCHANGED <<qos_config, ldecs, notLongVars>>

\* websocket.rs:46-47  the upgrade completes and the callback starts proxy_ws
WsUpgraded(c) ==
    /\ lpc[c] = "upgrading"
    /\ lpc' = [lpc EXCEPT ![c] = "proxying"]
    /\ UNCHANGED <<qos_config, counts, lctx, ldecs, notLongVars>>

\* websocket.rs:46  the client goes away before the upgrade completes: the
\* on_upgrade callback is never run
WsUpgradeFailed(c) ==
    /\ lpc[c] = "upgrading"
    /\ lpc' = [lpc EXCEPT ![c] = "closed"]
    /\ UNCHANGED <<qos_config, counts, lctx, ldecs, notLongVars>>

\* websocket.rs:47-52  proxy_ws returns (the backend connection failed, a
\* pump ended or failed, either side closed) and the callback decrements
WsFinished(c) ==
    /\ lpc[c] = "proxying"
    /\ Release(c)
    /\ UNCHANGED <<qos_config, lctx, notLongVars>>

\* server.rs:547-560  an SSE response: the limit check, then an SseGuard is
\* put into the response's extensions
SseStart(c) ==
    /\ lpc[c] = "idle"
    /\ \E ctx \in UserContexts : Admit(c, ctx, "streaming")
    /\ UNCHANGED <<qos_config, ldecs, notLongVars>>

\* server.rs:85-90  the response's extensions are dropped, and the SseGuard
\* with them
SseGuardDrop(c) ==
    /\ lpc[c] = "streaming"
    /\ Release(c)
    /\ UNCHANGED <<qos_config, lctx, notLongVars>>

NextLongLived ==
    \E c \in Conns :
        \/ HandleWsUpgrade(c)
        \/ WsUpgraded(c)
        \/ WsUpgradeFailed(c)
        \/ WsFinished(c)
        \/ SseStart(c)
        \/ SseGuardDrop(c)

SpecLongLived == InitLongLived /\ [][NextLongLived]_vars

\* C10: every WebSocket or SSE connection that incremented its user's
\* long-lived counter gets exactly one decrement of that counter: never more
\* than one, and one by the time the connection has ended, on every
\* termination path.
C10_ExactlyOneDecrement ==
    \A c \in Conns :
        /\ ldecs[c] <= 1
        /\ (lpc[c] = "closed" /\ lctx[c] # NoUserContext) => ldecs[c] = 1


(* ------- SpecTracker: calls of one ConnectionTracker, any order ------- *)

\* the parts other than the tracker
notTrackerVars == <<cfgVars, guardVars, healthVars, poolVars, budgetVars, lpc, lctx, ldecs,
                    reloadVars, scenarioVars, laterVars>>

\* a tracker built from a QoS configuration; every user has one tier
InitTracker ==
    /\ qos_config \in QosConfigs
    /\ counts = NoCounts
    /\ ttier \in [Users -> 1..3]
    /\ tcall = NoCall
    /\ lpc = [c \in Conns |-> "idle"]
    /\ lctx = [c \in Conns |-> NoUserContext]
    /\ ldecs = [c \in Conns |-> 0]
    /\ CfgIdle
    /\ GuardIdle
    /\ HealthIdle
    /\ PoolIdle
    /\ BudgetIdle
    /\ ReloadIdle
    /\ ScenarioIdle
    /\ LaterIdle

\* what a call finds: whether the user has an entry, and its count
Found(op, a) ==
    [op |-> op, address |-> a, had |-> a \in DOMAIN counts,
     before |-> IF a \in DOMAIN counts THEN counts[a] ELSE 0, ok |-> FALSE]

\* a caller runs tracker.try_increment(address, tier_id); the mutex makes the
\* call one step
TryIncrementCall(a) ==
    LET res == try_increment(counts, qos_config, a, ttier[a]) IN
    /\ counts' = res.counts
    /\ tcall' = [Found("try_increment", a) EXCEPT !.ok = res.ok]
    /\ UNCHANGED <<qos_config, ttier, notTrackerVars>>

\* a caller runs tracker.decrement(address)
DecrementCall(a) ==
    /\ counts' = decrement(counts, a)
    /\ tcall' = Found("decrement", a)
    /\ UNCHANGED <<qos_config, ttier, notTrackerVars>>

NextTracker ==
    \E a \in Users : TryIncrementCall(a) \/ DecrementCall(a)

SpecTracker == InitTracker /\ [][NextTracker]_vars

\* C11: under any order of try_increment and decrement calls for users of
\* fixed tier, try_increment returns true and adds one iff the count it found
\* was below the tier limit, and otherwise returns false and leaves the count;
\* every count stays within 0..limit; and a decrement that takes the count to
\* 0 keeps the entry, at 0.
C11_TrackerWithinLimit ==
    /\ \A a \in DOMAIN counts :
          counts[a] >= 0 /\ counts[a] <= tier_limit(qos_config, ttier[a])
    /\ tcall.op = "try_increment" =>
          /\ tcall.ok <=> tcall.before < tier_limit(qos_config, ttier[tcall.address])
          /\ tcall.address \in DOMAIN counts
          /\ counts[tcall.address] = tcall.before + (IF tcall.ok THEN 1 ELSE 0)
    /\ tcall.op = "decrement" =>
          /\ tcall.had <=> tcall.address \in DOMAIN counts
          /\ tcall.had => counts[tcall.address] =
                             (IF tcall.before > 0 THEN tcall.before - 1 ELSE 0)

\* C11's case: a try_increment was refused at the limit, while another
\* user's entry has been decremented back to 0 and is still in the map
C11_Witness ==
    /\ tcall.op = "try_increment" /\ ~tcall.ok
    /\ \E a \in DOMAIN counts : a # tcall.address /\ counts[a] = 0


(* ---------- SpecReload: configuration reload under traffic ------------ *)

notReloadVars == <<cfgVars, guardVars, healthVars, poolVars, budgetVars, longVars, trackerVars,
                   scenarioVars, laterVars>>

\* validation.rs:17-56  validate_config: the set of errors found
validate_config(cfg) ==
    (IF cfg.groups_known THEN {} ELSE {"unknown backend group"})
    \cup (IF cfg.healthy_threshold = 0 THEN {"healthy_threshold must be > 0"} ELSE {})
    \cup (IF cfg.unhealthy_threshold = 0 THEN {"unhealthy_threshold must be > 0"} ELSE {})
    \cup (IF cfg.budget_ratio_pct < 0 \/ cfg.budget_ratio_pct > 100
          THEN {"budget_ratio must be between 0.0 and 1.0"} ELSE {})

\* a plausible slip: the result of validate_config is not looked at
load_config_Unvalidated(content) ==
    IF ~content.readable THEN [ok |-> FALSE, error |-> "Io"]
    ELSE IF ~content.parses THEN [ok |-> FALSE, error |-> "Parse"]
    ELSE [ok |-> TRUE, error |-> "none"]

\* loader.rs:36-43  load_config
load_config(content) ==
    IF ~content.readable THEN [ok |-> FALSE, error |-> "Io"]
    ELSE IF ~content.parses THEN [ok |-> FALSE, error |-> "Parse"]
    ELSE IF validate_config(content) # {} THEN [ok |-> FALSE, error |-> "Validation"]
    ELSE [ok |-> TRUE, error |-> "none"]

Faults == {"none", "io", "parse", "group", "healthy_threshold", "unhealthy_threshold",
           "budget_ratio"}

\* a plausible slip: a decision reads the installed bundle again
bundle_for_Installed(snapshot, installed) == installed

\* server.rs:332-335, 388-395  every decision of a request goes through
\* wrapper.inner, the bundle the fallback closure loaded
bundle_for(snapshot, installed) == snapshot

\* every component of the bundle is built, from the bundle's configuration
Complete(b) ==
    /\ b.config.ver # 0
    /\ b.router = b.config.ver /\ b.backends = b.config.ver
    /\ b.retry_budget = b.config.ver /\ b.axum_router = b.config.ver

InitReload ==
    /\ ReloadIdle
    /\ CfgIdle
    /\ GuardIdle
    /\ HealthIdle
    /\ PoolIdle
    /\ BudgetIdle
    /\ LongIdle
    /\ TrackerIdle
    /\ ScenarioIdle
    /\ LaterIdle

\* the configuration file is written: any content, good or faulty
FileWritten ==
    /\ config_file.ver <= MaxFileWrites
    /\ \E fault \in Faults : config_file' = FileContent(config_file.ver + 1, fault)
    /\ fs_event' = TRUE
    /\ UNCHANGED <<config_updates, inner_state, new_inner, refused, fpc, current_inner,
                   loads, used, notReloadVars>>

\* watcher.rs:34-51  the watcher's callback on a modify / create event:
\* load_config, and the configuration is sent on the channel or the error is
\* logged
WatcherEvent ==
    /\ fs_event
    /\ fs_event' = FALSE
    /\ IF load_config(config_file).ok
       THEN /\ config_updates' = Append(config_updates, config_file)
            /\ UNCHANGED refused
       ELSE /\ refused' = refused \cup {config_file.ver}
            /\ UNCHANGED config_updates
    /\ UNCHANGED <<config_file, inner_state, new_inner, fpc, current_inner, loads, used,
                   notReloadVars>>

\* server.rs:253-255  the reloader receives a configuration and starts
\* build_inner
ReloaderRecv ==
    /\ new_inner = NoBundle
    /\ config_updates # <<>>
    /\ new_inner' = [NoBundle EXCEPT !.config = Head(config_updates)]
    /\ config_updates' = Tail(config_updates)
    /\ UNCHANGED <<config_file, fs_event, inner_state, refused, fpc, current_inner,
                   loads, used, notReloadVars>>

\* server.rs:117-227  build_inner builds the components one after another
BuildComponent ==
    /\ new_inner.config.ver # 0
    /\ ~Complete(new_inner)
    /\ new_inner' =
         IF new_inner.router = 0 THEN [new_inner EXCEPT !.router = new_inner.config.ver]
         ELSE IF new_inner.backends = 0 THEN [new_inner EXCEPT !.backends = new_inner.config.ver]
         ELSE IF new_inner.retry_budget = 0
              THEN [new_inner EXCEPT !.retry_budget = new_inner.config.ver]
         ELSE [new_inner EXCEPT !.axum_router = new_inner.config.ver]
    /\ UNCHANGED <<config_file, fs_event, config_updates, inner_state, refused, fpc,
                   current_inner, loads, used, notReloadVars>>

\* server.rs:256  reloader_inner.store(Arc::new(new_inner))
ReloaderStore ==
    /\ Complete(new_inner)
    /\ inner_state' = new_inner
    /\ new_inner' = NoBundle
    /\ UNCHANGED <<config_file, fs_event, config_updates, refused, fpc, current_inner,
                   loads, used, notReloadVars>>

\* server.rs:329-335  the fallback closure: inner_state.load_full()
FallbackLoad(r) ==
    /\ fpc[r] = "idle"
    /\ current_inner' = [current_inner EXCEPT ![r] = inner_state]
    /\ loads' = [loads EXCEPT ![r] = loads[r] + 1]
    /\ fpc' = [fpc EXCEPT ![r] = "admission"]
    /\ UNCHANGED <<config_file, fs_event, config_updates, inner_state, new_inner, refused,
                   used, notReloadVars>>

\* a decision of request r taken from one component of its bundle
Decide(r, from, to, version) ==
    /\ fpc[r] = from
    /\ used' = [used EXCEPT ![r] = used[r] \cup {version}]
    /\ fpc' = [fpc EXCEPT ![r] = to]
    /\ UNCHANGED <<config_file, fs_event, config_updates, inner_state, new_inner, refused,
                   current_inner, loads, notReloadVars>>

\* server.rs:164-180, 331-339  the layers of the bundle's axum_router:
\* subscription gate and rate limiter
Admission(r) ==
    Decide(r, "admission", "route", bundle_for(current_inner[r], inner_state).axum_router)

\* server.rs:391-397  router.match_request
RouteMatch(r) ==
    Decide(r, "route", "select", bundle_for(current_inner[r], inner_state).router)

\* server.rs:392, 471  backends.get
SelectBackend(r) ==
    Decide(r, "select", "settings", bundle_for(current_inner[r], inner_state).backends)

\* server.rs:390-395  config.retries, config.health_check and the retry budget
ReadSettings(r) ==
    /\ fpc[r] = "settings"
    /\ LET b == bundle_for(current_inner[r], inner_state) IN
       used' = [used EXCEPT ![r] = used[r] \cup {b.config.ver, b.retry_budget}]
    /\ fpc' = [fpc EXCEPT ![r] = "done"]
    /\ UNCHANGED <<config_file, fs_event, config_updates, inner_state, new_inner, refused,
                   current_inner, loads, notReloadVars>>

NextReload ==
    \/ FileWritten
    \/ WatcherEvent
    \/ ReloaderRecv
    \/ BuildComponent
    \/ ReloaderStore
    \/ \E r \in ReloadRequests :
          \/ FallbackLoad(r)
          \/ Admission(r)
          \/ RouteMatch(r)
          \/ SelectBackend(r)
          \/ ReadSettings(r)

SpecReload == InitReload /\ [][NextReload]_vars

\* C12: a request loads the bundle pointer once; the bundle it loaded is
\* completely built; and every decision it takes (admission, route match,
\* backend selection, retry and health settings) comes from that bundle,
\* whatever the reloader stores meanwhile: no request uses components of two
\* bundles.
C12_OneSnapshotPerRequest ==
    \A r \in ReloadRequests :
        /\ loads[r] = (IF fpc[r] = "idle" THEN 0 ELSE 1)
        /\ fpc[r] # "idle" => Complete(current_inner[r])
        /\ used[r] \subseteq {current_inner[r].config.ver}

\* C12's case: one request has finished against the old bundle after the
\* reloader stored a new one, and another request that loaded after the store
\* has finished against the new one
C12_Witness ==
    \E r, q \in ReloadRequests :
        /\ fpc[r] = "done" /\ fpc[q] = "done"
        /\ used[r] = {1} /\ used[q] = {2}
        /\ inner_state.config.ver = 2

\* C20: a configuration that fails loading or validation is never installed,
\* sent to the reloader or built: the installed bundle is always a complete
\* bundle of a configuration that can be read and parsed and has no
\* validation error, so after a failed reload it is the bundle from before.
C20_FailedReloadKeepsBundle ==
    /\ Complete(inner_state)
    /\ inner_state.config.readable /\ inner_state.config.parses
    /\ validate_config(inner_state.config) = {}
    /\ inner_state.config.ver \notin refused
    /\ new_inner.config.ver \notin refused
    /\ \A i \in 1..Len(config_updates) : config_updates[i].ver \notin refused

\* C20's case: the watcher refused a configuration written after the
\* installed one, the reload attempt is over, and a request has since been
\* served from the bundle installed before
C20_Witness ==
    /\ \E v \in refused : v > inner_state.config.ver
    /\ ~fs_event /\ config_updates = <<>> /\ new_inner = NoBundle
    /\ \E r \in ReloadRequests : fpc[r] = "done" /\ used[r] = {inner_state.config.ver}


(* ---- SpecAttempts: the attempt loop, health checks disabled ---------- *)

\* config.retries as the loader accepts it: enabled or not, any max_attempts
AnyRetryConfigs == [enabled : BOOLEAN, max_attempts : 0..MaxAttempts]

InitAttempts ==
    /\ health_config \in PoolHealthConfigs
    /\ retry_config \in AnyRetryConfigs
    /\ \E m \in 1..MaxConnections : backends = [b \in BackendIds |-> NewBackend(m)]
    /\ counter = 0
    /\ budget = NewRetryBudget(10, 100)
    /\ rpc = [r \in Requests |-> "idle"]
    /\ rbackend = [r \in Requests |-> 0]
    /\ attempts = [r \in Requests |-> 0]
    /\ method = [r \in Requests |-> "GET"]
    /\ max_attempts = [r \in Requests |-> 1]
    /\ probe_idx = 1
    /\ down = [b \in BackendIds |-> FALSE]
    /\ failedProbes = [b \in BackendIds |-> 0]
    /\ GuardIdle
    /\ HealthIdle
    /\ BudgetIdle
    /\ LongIdle
    /\ MoreIdle

\* the handler's future is dropped while it awaits the upstream response or
\* the backoff sleep (the client went away, or TimeoutLayer fired,
\* server.rs:209-212): its locals are dropped, the guard with them
Cancelled(r) ==
    /\ rpc[r] \in {"sent", "backoff"}
    /\ backends' = [backends EXCEPT ![rbackend[r]] = dec_connections(backends[rbackend[r]])]
    /\ Returned(r, "done")
    /\ UNCHANGED <<counter, budget, probe_idx, down, failedProbes, cfgVars, notPoolVars>>

\* server.rs:547-558  the response is an SSE stream and the user is at the
\* long-lived limit: 429 is returned before the backend is marked, and the
\* guard is dropped
SseLimitRejected(r) ==
    /\ rpc[r] = "sent"
    /\ backends' = [backends EXCEPT ![rbackend[r]] = dec_connections(backends[rbackend[r]])]
    /\ Returned(r, "done")
    /\ UNCHANGED <<counter, budget, probe_idx, down, failedProbes, cfgVars, notPoolVars>>

\* the steps of request r once it has started
RequestStep(r) ==
    \/ NextServer(r)
    \/ TryCreateGuard(r)
    \/ SendAttempt(r)
    \/ HandleOutcome(r)
    \/ ContinueLoop(r)
    \/ Cancelled(r)
    \/ SseLimitRejected(r)

NextAttempts ==
    \E r \in Requests : StartRequest(r) \/ RequestStep(r)

\* the runtime keeps polling a handler that can go on: the upstream client
\* answers or fails, and the backoff sleep ends
SpecAttempts ==
    InitAttempts /\ [][NextAttempts]_vars /\ \A r \in Requests : WF_vars(RequestStep(r))

\* the request is in its attempt loop
InLoop(r) == rpc[r] \in {"loop", "picked", "guard", "sent", "backoff"}

\* C13 as claimed: a request makes at most retries.max_attempts attempts, and
\* at most one when retries are disabled or its method is not idempotent.
C13_AtMostMaxAttempts ==
    \A r \in Requests :
        InLoop(r) =>
            attempts[r] <= (IF retry_config.enabled /\ method[r] # "POST"
                            THEN retry_config.max_attempts ELSE 1)

\* C13 as amended: a request makes at most max(1, retries.max_attempts)
\* attempts, and at most one when retries are disabled or its method is not
\* idempotent; and the attempt loop ends: a request in the loop returns.
C13_AttemptsBoundedLoopEnds ==
    /\ [](\A r \in Requests :
             InLoop(r) =>
                 attempts[r] <= (IF retry_config.enabled /\ method[r] # "POST"
                                 THEN (IF retry_config.max_attempts > 1
                                       THEN retry_config.max_attempts ELSE 1)
                                 ELSE 1))
    /\ \A r \in Requests : InLoop(r) ~> rpc[r] \in {"done", "unavailable"}

\* C13's case: a GET is in its last permitted attempt after a retry, while a
\* POST has had its one attempt sent
C13_Witness ==
    \E r, q \in Requests :
        /\ method[r] = "GET" /\ rpc[r] = "sent" /\ attempts[r] = retry_config.max_attempts
        /\ attempts[r] > 1
        /\ method[q] = "POST" /\ rpc[q] = "sent" /\ attempts[q] = 1

\* the requests that hold a guard of backend b
Holders(b) == {r \in Requests : rpc[r] \in {"guard", "sent", "backoff"} /\ rbackend[r] = b}

\* C15: every acquired backend slot is released exactly once on every exit
\* path: active_connections of a backend is the number of requests holding a
\* guard of it, so it never underflows and is 0 when no request is in flight.
C15_SlotsMatchGuards ==
    \A b \in BackendIds : backends[b].active_connections = Cardinality(Holders(b))

\* C15's case: every request has returned, an attempt having been retried and
\* one request having been answered 503 for want of a backend, and no backend
\* holds a connection
C15_Witness ==
    /\ \A r \in Requests : rpc[r] \in {"done", "unavailable"}
    /\ budget.total_retries > 0
    /\ \E r \in Requests : rpc[r] = "unavailable"
    /\ \A b \in BackendIds : backends[b].active_connections = 0


(* ---- SpecScenario: GETs against an upstream that recovers ------------ *)

\* tests/failure_injection.rs:23-32  the programmable backend: a retryable
\* status for the first k attempts of a request, then 200; k is below
\* max_attempts
Scripts(max) ==
    UNION {{run \o <<200>> : run \in [1..k -> {502, 503, 504}]} : k \in 0..(max - 1)}

\* test_retry_on_failure: retries enabled with max_attempts = 3 (the
\* default), budget_ratio = 1.0, health checks disabled with
\* unhealthy_threshold = 10
InitScenario ==
    /\ health_config = [healthy_threshold |-> 2, unhealthy_threshold |-> 10]
    /\ retry_config = DefaultRetryConfig
    /\ \E m \in 1..MaxConnections : backends = [b \in BackendIds |-> NewBackend(m)]
    /\ counter = 0
    /\ budget = NewRetryBudget(100, 100)
    /\ rpc = [r \in Requests |-> "idle"]
    /\ rbackend = [r \in Requests |-> 0]
    /\ attempts = [r \in Requests |-> 0]
    /\ method = [r \in Requests |-> "GET"]
    /\ max_attempts = [r \in Requests |-> 1]
    /\ probe_idx = 1
    /\ down = [b \in BackendIds |-> FALSE]
    /\ failedProbes = [b \in BackendIds |-> 0]
    /\ script \in [Requests -> Scripts(retry_config.max_attempts)]
    /\ planned = [r \in Requests |-> Len(script[r]) - 1]
    /\ received = [r \in Requests |-> 0]
    /\ answer = [r \in Requests |-> 0]
    /\ marks = [r \in Requests |-> NoMarks]
    /\ GuardIdle
    /\ HealthIdle
    /\ BudgetIdle
    /\ LongIdle
    /\ TrackerIdle
    /\ ReloadIdle
    /\ LaterIdle

\* a GET arrives, its (empty) body buffered
StartGet(r) == Start(r, "GET", TRUE)

\* the upstream answers the attempt as its script says
ScriptedOutcome(r) ==
    /\ rpc[r] = "sent"
    /\ script[r] # <<>>
    /\ Respond(r, [error |-> FALSE, status |-> Head(script[r])])
    /\ script' = [script EXCEPT ![r] = Tail(script[r])]
    /\ received' = [received EXCEPT ![r] = received[r] + 1]
    /\ answer' = [answer EXCEPT ![r] = IF rpc'[r] = "done" THEN Head(script[r]) ELSE answer[r]]
    /\ UNCHANGED <<counter, probe_idx, down, failedProbes, planned, marks, cfgVars,
                   otherPartsVars>>

NextScenario ==
    \E r \in Requests :
        \/ StartGet(r)
        \/ NextServer(r)
        \/ TryCreateGuard(r)
        \/ SendAttempt(r)
        \/ ScriptedOutcome(r)
        \/ ContinueLoop(r)

SpecScenario == InitScenario /\ [][NextScenario]_vars

Token == TicksPerSec

\* f64::min
Min(a, b) == IF a <= b THEN a ELSE b

\* rate_limit.rs:70-75  the (rps, burst) pair of a tier; tier_id 0 is None
rate_limits(cfg, tier_id) ==
    CASE tier_id = 1 -> [rps |-> cfg.tier_1_rps, burst |-> cfg.tier_1_rps * 2]
      [] tier_id = 2 -> [rps |-> cfg.tier_2_rps, burst |-> cfg.tier_2_rps * 2]
      [] tier_id = 3 -> [rps |-> cfg.tier_3_rps, burst |-> cfg.tier_3_rps * 2]
      [] OTHER -> [rps |-> cfg.default_rps, burst |-> cfg.default_burst]

\* rate_limit.rs:26-31  TokenBucket::new
NewTokenBucket(capacity, now) == [tokens |-> capacity * Token, last_update |-> now]

\* a plausible slip: the refill is not capped at the capacity
try_acquire_NoCap(bucket, capacity, refill_rate, now) ==
    LET elapsed == now - bucket.last_update
        refilled == bucket.tokens + elapsed * refill_rate
        ok == refilled >= Token
    IN  [bucket |-> [tokens |-> IF ok THEN refilled - Token ELSE refilled,
                     last_update |-> now],
         ok |-> ok]

\* rate_limit.rs:33-47  TokenBucket::try_acquire at the instant now: the
\* bucket it leaves and its result
try_acquire(bucket, capacity, refill_rate, now) ==
    LET elapsed == now - bucket.last_update
        refilled == Min(bucket.tokens + elapsed * refill_rate, capacity * Token)
        ok == refilled >= Token
    IN  [bucket |-> [tokens |-> IF ok THEN refilled - Token ELSE refilled,
                     last_update |-> now],
         ok |-> ok]

\* the limits a limiter is built with: the tier-1 default of 10 requests per
\* second with an anonymous burst smaller than the rate, and a slow tier 1
\* with no anonymous burst at all
RateConfigs ==
    {[tier_1_rps |-> 10, tier_2_rps |-> 2, tier_3_rps |-> 3,
      default_rps |-> 2, default_burst |-> 1],
     [tier_1_rps |-> 1, tier_2_rps |-> 2, tier_3_rps |-> 3,
      default_rps |-> 1, default_burst |-> 0]}

\* the first key is a user of any tier or a client IP, the others are
\* client IPs (tier_id None)
KeyTiers == {t \in [Keys -> 0..3] : \A k \in Keys : k > 1 => t[k] = 0}

InitBucket ==
    /\ rate_config \in RateConfigs
    /\ ktier \in KeyTiers
    /\ buckets = NoBuckets
    /\ clock = 0
    /\ bcall = NoCheck
    /\ hist = NoHist
    /\ CfgIdle
    /\ GuardIdle
    /\ HealthIdle
    /\ PoolIdle
    /\ BudgetIdle
    /\ LongIdle
    /\ TrackerIdle
    /\ ReloadIdle
    /\ ScenarioIdle
    /\ GateIdle
    /\ RouterIdle
    /\ ExtraIdle

notBucketVars == <<cfgVars, guardVars, healthVars, poolVars, budgetVars, longVars, trackerVars,
                   reloadVars, scenarioVars, gateVars, routerVars, extraVars>>

\* Instant::now() is monotonic
Tick ==
    /\ clock < MaxTicks
    /\ clock' = clock + 1
    /\ UNCHANGED <<rate_config, ktier, buckets, bcall, hist, notBucketVars>>

\* rate_limit.rs:94-100 and 69-83  rate_limit_middleware calls check for
\* the request's key and tier; check runs under the buckets mutex
Check(k) ==
    LET lim == rate_limits(rate_config, ktier[k])
        had == k \in DOMAIN buckets
        bucket == IF had THEN buckets[k] ELSE NewTokenBucket(lim.burst, clock)
        res == try_acquire(bucket, lim.burst, lim.rps, clock)
    IN  /\ buckets' = Insert(buckets, k, res.bucket)
        /\ bcall' = [key |-> k, had |-> had, tokens |-> bucket.tokens,
                     elapsed |-> clock - bucket.last_update, ok |-> res.ok]
        /\ hist' = IF hist.on /\ hist.key = k
                   THEN [hist EXCEPT !.admitted = IF res.ok THEN @ + 1 ELSE @,
                                     !.denied = @ \/ ~res.ok]
                   ELSE hist
        /\ UNCHANGED <<rate_config, ktier, clock, notBucketVars>>

\* server.rs:120-128, 256  a configuration reload builds a new
\* RateLimiterState, with no bucket, and installs it; one reload at most
\* inside the interval that hist measures
RebuildLimiter ==
    /\ ~hist.swapped
    /\ buckets' = NoBuckets
    /\ bcall' = NoCheck
    /\ hist' = IF hist.on THEN [hist EXCEPT !.swapped = TRUE] ELSE hist
    /\ UNCHANGED <<rate_config, ktier, clock, notBucketVars>>

\* the beginning of the interval over which key k's admissions are counted
Mark(k) ==
    /\ ~hist.on
    /\ hist' = [on |-> TRUE, key |-> k, at |-> clock, admitted |-> 0, denied |-> FALSE,
                fresh |-> k \notin DOMAIN buckets, swapped |-> FALSE]
    /\ UNCHANGED <<rate_config, ktier, buckets, clock, bcall, notBucketVars>>

NextBucket ==
    \/ Tick
    \/ \E k \in Keys : Check(k)
    \/ RebuildLimiter
    \/ \E k \in Keys : Mark(k)

SpecBucket == InitBucket /\ [][NextBucket]_vars

\* what key k is limited to
KeyLimits(k) == rate_limits(rate_config, ktier[k])

\* the tokens a check of key k would find after its refill
Refilled(k) ==
    Min(buckets[k].tokens + (clock - buckets[k].last_update) * KeyLimits(k).rps,
        KeyLimits(k).burst * Token)

\* tokens stay within [0, capacity]
TokensWithinCapacity ==
    \A k \in DOMAIN buckets :
        buckets[k].tokens >= 0 /\ buckets[k].tokens <= KeyLimits(k).burst * Token

\* the last check admitted iff the refill left at least one token, took one
\* token if it admitted and none if it denied
AdmittedIffToken ==
    bcall # NoCheck =>
        LET lim == KeyLimits(bcall.key)
            avail == Min(lim.burst * Token, bcall.tokens + bcall.elapsed * lim.rps)
        IN  /\ bcall.ok <=> avail >= Token
            /\ buckets[bcall.key].tokens = IF bcall.ok THEN avail - Token ELSE avail
            /\ ~bcall.had => bcall.tokens = lim.burst * Token

\* the scenario's key: 10 requests per second, burst 20
ScenarioKey(k) == KeyLimits(k) = [rps |-> 10, burst |-> 20]

\* rps = 10, burst = 20: a new key is denied only after 20 admissions, no
\* more than 20 are admitted within 100 ms, and one second after a denial
\* exactly ten more requests can be admitted
BurstScenario ==
    /\ hist.on /\ ScenarioKey(hist.key) /\ ~hist.swapped =>
        /\ hist.fresh /\ hist.denied => hist.admitted >= 20
        /\ 10 * (clock - hist.at) < TicksPerSec => hist.admitted <= 20
    /\ \A k \in DOMAIN buckets :
        /\ ScenarioKey(k)
        /\ bcall.key = k /\ ~bcall.ok
        /\ clock - buckets[k].last_update = TicksPerSec
        => Refilled(k) >= 10 * Token /\ Refilled(k) < 11 * Token

\* C16 as stated: tokens of every key stay within [0, capacity]; a request
\* is admitted iff the refill min(capacity, tokens + elapsed*rate) leaves at
\* least one token, and a denied request consumes none; over ANY interval of
\* length t at most capacity + rate*t requests of one key are admitted; the
\* scenario rps = 10, burst = 20 behaves as described.
C16_AnyInterval ==
    /\ TokensWithinCapacity
    /\ AdmittedIffToken
    /\ BurstScenario
    /\ hist.on =>
        hist.admitted * Token
            <= KeyLimits(hist.key).burst * Token
               + KeyLimits(hist.key).rps * (clock - hist.at)

\* C16, amended: as above, with the bound of capacity + rate*t admissions
\* holding over every interval during which the rate limiter is not rebuilt
\* by a configuration reload.
C16_TokenBucket ==
    /\ TokensWithinCapacity
    /\ AdmittedIffToken
    /\ BurstScenario
    /\ hist.on /\ ~hist.swapped =>
        hist.admitted * Token
            <= KeyLimits(hist.key).burst * Token
               + KeyLimits(hist.key).rps * (clock - hist.at)

\* C16 witness: a new key limited to rps = 10, burst = 20 had 20 requests
\* admitted, one denied, and one second after the first of them ten more
\* admitted
C16_Witness ==
    /\ hist.on /\ hist.fresh /\ ~hist.swapped /\ ScenarioKey(hist.key)
    /\ hist.denied /\ hist.admitted = 30
    /\ clock - hist.at = TicksPerSec
    /\ bcall.key = hist.key /\ bcall.ok

(* ------- SpecGate: the subscription gate and the rate limiter ---------- *)

\* u64 values are below U64Modulus
U64Modulus == 2 ^ TimeBits

\* cache.rs:33-39  SubscriptionInfo::is_active_with_grace at the system time
\* now. The sum expiry + grace_secs is a u64 addition: when it overflows, a
\* build with overflow checks panics and a build without them wraps.
is_active_with_grace(sub, grace_secs, now, checks) ==
    LET sum == sub.expiry + grace_secs
    IN  IF sum >= U64Modulus /\ checks THEN "panic"
        ELSE IF (sum % U64Modulus) > now THEN "active"
        ELSE "expired"

\* cache.rs:110-112  SubscriptionCache::get_subscription
get_subscription(cache, user) ==
    IF user \in DOMAIN cache THEN {cache[user]} ELSE {}

\* access_control.rs:31-77  access_control_middleware: its verdict ("pass"
\* runs the next layer, a status is answered at once) and the UserContext
\* it attaches
access_control(state, cache, hdr, now, checks) ==
    IF ~state.enabled THEN [verdict |-> "pass", ctx |-> NoUserContext]
    ELSE IF hdr.kind = "missing" THEN [verdict |-> "401", ctx |-> NoUserContext]
    ELSE IF hdr.kind = "malformed" THEN [verdict |-> "400", ctx |-> NoUserContext]
    ELSE IF get_subscription(cache, hdr.address) = {}
    THEN [verdict |-> "403", ctx |-> NoUserContext]
    ELSE LET sub == cache[hdr.address]
             active == is_active_with_grace(sub, state.grace_period_secs, now, checks)
         IN  IF active = "panic" THEN [verdict |-> "panic", ctx |-> NoUserContext]
             ELSE IF active = "active"
             THEN [verdict |-> "pass",
                   ctx |-> [address |-> hdr.address, tier_id |-> sub.tier_id]]
             ELSE [verdict |-> "403", ctx |-> NoUserContext]

\* axum Router::layer wraps what the router already holds: the layer added
\* last runs first
layer(router, l) == <<l>> \o router

\* server.rs:158-180  build_inner: the handler, then the rate limiter if
\* enabled, then the access control
build_router(rl_enabled) ==
    layer(IF rl_enabled THEN layer(<<"proxy_handler">>, "rate_limit")
          ELSE <<"proxy_handler">>,
          "access_control")

\* the limits used at the gate: one request per second for tier 1 and for
\* anonymous clients
GateRateConfig ==
    [tier_1_rps |-> 1, tier_2_rps |-> 2, tier_3_rps |-> 3,
     default_rps |-> 1, default_burst |-> 1]

\* X-User-Address: absent, not an address, or the address of a user
Headers ==
    {[kind |-> "missing", address |-> 0], [kind |-> "malformed", address |-> 0]}
        \cup [kind : {"address"}, address : Users]

\* subscriptions.json: the first user holds a tier-1 subscription that
\* expires early, later, or never (u64::MAX); the others hold none
Subscriptions ==
    {[a \in {1} |-> [tier_id |-> 1, expiry |-> e]] : e \in {1, 2, U64Modulus - 1}}

InitGate ==
    /\ payments_config \in [enabled : BOOLEAN, grace_period_secs : {0, 1}]
    /\ rate_limit_enabled \in BOOLEAN
    /\ overflow_checks \in BOOLEAN
    /\ subs \in Subscriptions
    /\ now_secs = 0
    /\ ahdr = [r \in GateRequests |-> NoHeader]
    /\ apath = [r \in GateRequests |-> <<>>]
    /\ atrace = [r \in GateRequests |-> <<>>]
    /\ agate = [r \in GateRequests |-> NoGate]
    /\ astatus = [r \in GateRequests |-> "none"]
    /\ rate_config = GateRateConfig
    /\ ktier = [k \in Keys |-> 0]
    /\ buckets = NoBuckets
    /\ clock = 0
    /\ bcall = NoCheck
    /\ hist = NoHist
    /\ CfgIdle
    /\ GuardIdle
    /\ HealthIdle
    /\ PoolIdle
    /\ BudgetIdle
    /\ LongIdle
    /\ TrackerIdle
    /\ ReloadIdle
    /\ ScenarioIdle
    /\ RouterIdle
    /\ ExtraIdle

notGateVars == <<cfgVars, guardVars, healthVars, poolVars, budgetVars, longVars, trackerVars,
                 reloadVars, scenarioVars, rate_config, ktier, clock, bcall, hist,
                 routerVars, extraVars>>
gateConfigVars == <<payments_config, rate_limit_enabled, overflow_checks, subs>>

\* SystemTime::now() moves on
SecondPasses ==
    /\ now_secs < MaxNow
    /\ now_secs' = now_secs + 1
    /\ UNCHANGED <<gateConfigVars, ahdr, apath, atrace, agate, astatus, buckets, notGateVars>>

\* a request arrives at the router built by build_inner
Arrive(r) ==
    /\ apath[r] = <<>> /\ astatus[r] = "none"
    /\ \E h \in Headers : ahdr' = [ahdr EXCEPT ![r] = h]
    /\ apath' = [apath EXCEPT ![r] = build_router(rate_limit_enabled)]
    /\ UNCHANGED <<gateConfigVars, now_secs, atrace, agate, astatus, buckets, notGateVars>>

\* access_control.rs:31-77  the access control layer runs
AccessControl(r) ==
    /\ apath[r] # <<>> /\ Head(apath[r]) = "access_control"
    /\ LET res == access_control(payments_config, subs, ahdr[r], now_secs, overflow_checks)
       IN  /\ agate' = [agate EXCEPT ![r] =
                            [verdict |-> res.verdict, now |-> now_secs, ctx |-> res.ctx]]
           /\ atrace' = [atrace EXCEPT ![r] = Append(@, "access_control")]
           /\ IF res.verdict = "pass"
              THEN /\ apath' = [apath EXCEPT ![r] = Tail(@)]
                   /\ UNCHANGED astatus
              ELSE /\ apath' = [apath EXCEPT ![r] = <<>>]
                   /\ astatus' = [astatus EXCEPT ![r] = res.verdict]
    /\ UNCHANGED <<gateConfigVars, now_secs, ahdr, buckets, notGateVars>>

\* rate_limit.rs:87-109  the rate limiter layer runs: the key is the user's
\* address when a UserContext is attached, the client's IP (key 0) otherwise
RateLimit(r) ==
    /\ apath[r] # <<>> /\ Head(apath[r]) = "rate_limit"
    /\ LET ctx == agate[r].ctx
           lim == rate_limits(rate_config, ctx.tier_id)
           bucket == IF ctx.address \in DOMAIN buckets THEN buckets[ctx.address]
                     ELSE NewTokenBucket(lim.burst, clock)
           res == try_acquire(bucket, lim.burst, lim.rps, clock)
       IN  /\ buckets' = Insert(buckets, ctx.address, res.bucket)
           /\ atrace' = [atrace EXCEPT ![r] = Append(@, "rate_limit")]
           /\ IF res.ok
              THEN /\ apath' = [apath EXCEPT ![r] = Tail(@)]
                   /\ UNCHANGED astatus
              ELSE /\ apath' = [apath EXCEPT ![r] = <<>>]
                   /\ astatus' = [astatus EXCEPT ![r] = "429"]
    /\ UNCHANGED <<gateConfigVars, now_secs, ahdr, agate, notGateVars>>

\* server.rs:382-597  proxy_handler forwards the request
ProxyHandler(r) ==
    /\ apath[r] # <<>> /\ Head(apath[r]) = "proxy_handler"
    /\ atrace' = [atrace EXCEPT ![r] = Append(@, "proxy_handler")]
    /\ apath' = [apath EXCEPT ![r] = <<>>]
    /\ astatus' = [astatus EXCEPT ![r] = "forwarded"]
    /\ UNCHANGED <<gateConfigVars, now_secs, ahdr, agate, buckets, notGateVars>>

\* the connection sends its next request
NextRequest(r) ==
    /\ apath[r] = <<>> /\ astatus[r] # "none"
    /\ ahdr' = [ahdr EXCEPT ![r] = NoHeader]
    /\ atrace' = [atrace EXCEPT ![r] = <<>>]
    /\ agate' = [agate EXCEPT ![r] = NoGate]
    /\ astatus' = [astatus EXCEPT ![r] = "none"]
    /\ UNCHANGED <<gateConfigVars, now_secs, apath, buckets, notGateVars>>

NextGate ==
    \/ SecondPasses
    \/ \E r \in GateRequests :
        \/ Arrive(r)
        \/ AccessControl(r)
        \/ RateLimit(r)
        \/ ProxyHandler(r)
        \/ NextRequest(r)

SpecGate == InitGate /\ [][NextGate]_vars

\* the layers a request has run
Ran(r, l) == \E i \in 1..Len(atrace[r]) : atrace[r][i] = l

\* C17: with payments enabled, a request without X-User-Address is answered
\* 401; one with a malformed address, an unknown address or a subscription
\* expired past the grace period is answered 401 or 403; one whose
\* subscription has expiry + grace > now is admitted; and a request the gate
\* rejected has run neither the rate limiter nor the handler.
C17_SubscriptionGate ==
    \A r \in GateRequests :
        payments_config.enabled /\ agate[r].verdict # "none" =>
            LET h == ahdr[r]
                v == agate[r].verdict
                known == h.kind = "address" /\ h.address \in DOMAIN subs
                until == subs[h.address].expiry + payments_config.grace_period_secs
            IN  /\ h.kind = "missing" => v = "401"
                /\ h.kind = "malformed" => v \in {"401", "403"}
                /\ h.kind = "address" /\ ~known => v \in {"401", "403"}
                /\ known /\ until <= agate[r].now => v \in {"401", "403"}
                /\ known /\ until > agate[r].now => v = "pass"
                /\ v # "pass" => ~Ran(r, "rate_limit") /\ ~Ran(r, "proxy_handler")

(* --------------- SpecRouter: the compiled route table ------------------ *)

\* char::to_lowercase on the characters that occur
lower(c) ==
    CASE c = "A" -> "a"
      [] c = "B" -> "b"
      [] OTHER -> c

\* str::to_lowercase
to_lowercase(str) == [i \in 1..Len(str) |-> lower(str[i])]

\* str::starts_with
starts_with(str, prefix) ==
    Len(prefix) <= Len(str) /\ SubSeq(str, 1, Len(prefix)) = prefix

\* router.rs:49  the bucket of a route: its host lowercased, "" if it has none
host_key(config) == IF config.host.some THEN to_lowercase(config.host.v) ELSE <<>>

\* router.rs:52-81 and matcher.rs:32-36  the Route compiled from a
\* RouteConfig: a HostMatcher (expected_host lowercased) if it has a host,
\* a PathPrefixMatcher if it has a prefix, both under an AndMatcher, and a
\* PathPrefixMatcher("/") if it has neither
compile_route(config) ==
    [id |-> config.name,
     matcher |->
        IF ~config.host.some /\ ~config.path_prefix.some
        THEN [host |-> None, prefix |-> Some(<<"/">>)]
        ELSE [host |-> IF config.host.some THEN Some(to_lowercase(config.host.v)) ELSE None,
              prefix |-> config.path_prefix],
     backend_group |-> config.backend_group,
     priority |-> config.priority]

\* a plausible slip: the bucket is sorted by ascending priority
RECURSIVE sort_by_priority_Ascending(_)
sort_by_priority_Ascending(routes) ==
    IF routes = <<>> THEN <<>>
    ELSE LET sorted == sort_by_priority_Ascending(SubSeq(routes, 1, Len(routes) - 1))
             last == routes[Len(routes)]
             before == SelectSeq(sorted, LAMBDA x : x.priority <= last.priority)
             after == SelectSeq(sorted, LAMBDA x : x.priority > last.priority)
         IN  before \o <<last>> \o after

\* router.rs:88  routes.sort_by(|a, b| b.priority.cmp(&a.priority)): a stable
\* sort by descending priority
RECURSIVE sort_by_priority(_)
sort_by_priority(routes) ==
    IF routes = <<>> THEN <<>>
    ELSE LET sorted == sort_by_priority(SubSeq(routes, 1, Len(routes) - 1))
             last == routes[Len(routes)]
             before == SelectSeq(sorted, LAMBDA x : x.priority >= last.priority)
             after == SelectSeq(sorted, LAMBDA x : x.priority < last.priority)
         IN  before \o <<last>> \o after

\* Vec<RouteConfig> -> Vec<Route>
RECURSIVE compile_all(_)
compile_all(configs) ==
    IF configs = <<>> THEN <<>>
    ELSE <<compile_route(Head(configs))>> \o compile_all(Tail(configs))

\* router.rs:45-92  Router::from_config: routes_by_host
from_config(configs) ==
    [k \in {host_key(configs[i]) : i \in 1..Len(configs)} |->
        sort_by_priority(compile_all(SelectSeq(configs, LAMBDA c : host_key(c) = k)))]

\* matcher.rs:39-47, 64-68, 90-95  Matcher::matches
matches(matcher, req) ==
    /\ matcher.host.some =>
        req.host.some /\ to_lowercase(req.host.v) = matcher.host.v
    /\ matcher.prefix.some => starts_with(req.path, matcher.prefix.v)

\* the first route of a bucket whose matcher accepts the request
RECURSIVE first_match(_, _)
first_match(routes, req) ==
    IF routes = <<>> THEN NoRoute
    ELSE IF matches(Head(routes).matcher, req) THEN Head(routes)
    ELSE first_match(Tail(routes), req)

\* a plausible slip: the wildcard bucket is scanned before the host's
match_request_WildcardFirst(router, req) ==
    LET host_lower == to_lowercase(req.host.v)
        by_host == IF req.host.some /\ host_lower \in DOMAIN router
                   THEN first_match(router[host_lower], req) ELSE NoRoute
        wildcard == IF <<>> \in DOMAIN router THEN first_match(router[<<>>], req)
                    ELSE NoRoute
    IN  IF wildcard # NoRoute THEN wildcard ELSE by_host

\* router.rs:95-122  Router::match_request: the Host header is lowercased
\* and looked up as it is (no port is stripped)
match_request(router, req) ==
    LET host_lower == to_lowercase(req.host.v)
        by_host == IF req.host.some /\ host_lower \in DOMAIN router
                   THEN first_match(router[host_lower], req) ELSE NoRoute
        wildcard == IF <<>> \in DOMAIN router THEN first_match(router[<<>>], req)
                    ELSE NoRoute
    IN  IF by_host # NoRoute THEN by_host ELSE wildcard

\* the hosts and prefixes routes are configured with
RouteHosts == {None, Some(<<"a">>), Some(<<"A">>), Some(<<"b">>)}
RoutePrefixes == {None, Some(<<"/">>), Some(<<"/", "x">>)}
RoutePriorities == {0, 10}

\* the i-th route of a configuration: route i forwards to group i
RouteConfigs(i) ==
    [name : {i}, host : RouteHosts, path_prefix : RoutePrefixes, backend_group : {i},
     priority : RoutePriorities]

\* config.routes: up to MaxRoutes routes
RouteTables ==
    UNION {{t \in [1..n -> UNION {RouteConfigs(i) : i \in 1..n}] :
                \A i \in 1..n : t[i].name = i} : n \in 0..MaxRoutes}

\* the requests: Host absent, a host in either case, with or without a port
RequestHosts ==
    {None, Some(<<"a">>), Some(<<"A">>), Some(<<"b">>),
     Some(<<"a", ":", "8", "0", "8", "0">>), Some(<<"A", ":", "8", "0", "8", "0">>)}
RequestPaths == {<<"/">>, <<"/", "z">>, <<"/", "x">>, <<"/", "x", "/", "y">>}
MatchRequests == [host : RequestHosts, path : RequestPaths, method : {"GET", "POST"}]

InitRouter ==
    /\ route_configs \in RouteTables
    /\ routes_by_host = from_config(route_configs)
    /\ mreq = NoRequest
    /\ mresult = NoRoute
    /\ CfgIdle
    /\ GuardIdle
    /\ HealthIdle
    /\ PoolIdle
    /\ BudgetIdle
    /\ LongIdle
    /\ TrackerIdle
    /\ ReloadIdle
    /\ ScenarioIdle
    /\ BucketIdle
    /\ GateIdle
    /\ ExtraIdle

notRouterVars == <<cfgVars, guardVars, healthVars, poolVars, budgetVars, longVars, trackerVars,
                   reloadVars, scenarioVars, bucketVars, gateVars, extraVars>>

\* server.rs:397  proxy_handler matches a request
MatchRequest ==
    \E req \in MatchRequests :
        /\ mreq' = req
        /\ mresult' = match_request(routes_by_host, req)
        /\ UNCHANGED <<route_configs, routes_by_host, notRouterVars>>

NextRouter == MatchRequest

SpecRouter == InitRouter /\ [][NextRouter]_vars

\* route i of the configuration accepts the request
Accepts(i, host, path) ==
    LET c == route_configs[i]
    IN  /\ c.host.some => host.some /\ to_lowercase(host.v) = to_lowercase(c.host.v)
        /\ c.path_prefix.some => starts_with(path, c.path_prefix.v)

\* the accepting routes configured for bucket k
Accepting(k, host, path) ==
    {i \in 1..Len(route_configs) : host_key(route_configs[i]) = k /\ Accepts(i, host, path)}

\* the route of S that comes first: highest priority, configuration order
\* among equal priorities; 0 if S is empty
Best(S) ==
    IF S = {} THEN 0
    ELSE CHOOSE i \in S :
            \A j \in S :
                \/ route_configs[i].priority > route_configs[j].priority
                \/ route_configs[i].priority = route_configs[j].priority /\ i <= j

\* what the claim says (host, path) is matched to; 0 is None
Expected(host, path) ==
    LET by_host == IF host.some THEN Best(Accepting(to_lowercase(host.v), host, path))
                   ELSE 0
    IN  IF by_host # 0 THEN by_host ELSE Best(Accepting(<<>>, host, path))

\* routes {a, /x, prio 10, g1} and {a, /, prio 0, g2}
ScenarioRoutes ==
    <<[name |-> 1, host |-> Some(<<"a">>), path_prefix |-> Some(<<"/", "x">>),
       backend_group |-> 1, priority |-> 10],
      [name |-> 2, host |-> Some(<<"a">>), path_prefix |-> Some(<<"/">>),
       backend_group |-> 2, priority |-> 0]>>

\* C18: match_request returns the first accepting route, in descending
\* priority and configuration order among equals, of the bucket of the
\* request's lowercased host, else of the wildcard bucket, else None; the
\* result depends on (host, path) only; with the scenario's routes, Host A
\* and /x/y give g1, Host a and /z give g2, Host b and /x give None.
C18_FirstByPriority ==
    mreq # NoRequest =>
        /\ mresult.id = Expected(mreq.host, mreq.path)
        /\ mresult # NoRoute =>
            mresult.backend_group = route_configs[mresult.id].backend_group
        /\ route_configs = ScenarioRoutes =>
            /\ mreq.host = Some(<<"A">>) /\ mreq.path = <<"/", "x", "/", "y">>
                => mresult.backend_group = 1
            /\ mreq.host = Some(<<"a">>) /\ mreq.path = <<"/", "z">>
                => mresult.backend_group = 2
            /\ mreq.host = Some(<<"b">>) /\ mreq.path = <<"/", "x">>
                => mresult = NoRoute

\* C18 witness: with the scenario's routes, Host A and /x/y matched route 1
C18_Witness ==
    /\ route_configs = ScenarioRoutes
    /\ mreq.host = Some(<<"A">>) /\ mreq.path = <<"/", "x", "/", "y">>
    /\ mresult.id = 1 /\ mresult.backend_group = 1

\* str before its first ':'
RECURSIVE strip_port(_)
strip_port(str) ==
    IF str = <<>> \/ Head(str) = ":" THEN <<>>
    ELSE <<Head(str)>> \o strip_port(Tail(str))

\* C19: a request whose Host header carries a port is matched exactly as
\* the request with the same Host without the port: "A:8080" matches the
\* routes configured for host "a" as "a" does.
C19_PortStripped ==
    mreq # NoRequest /\ mreq.host.some =>
        mresult = match_request(routes_by_host,
                                [mreq EXCEPT !.host = Some(strip_port(mreq.host.v))])

(* ------- SpecGroups: routes and the groups of the BackendManager ------- *)

\* validation.rs:20-30  the routes whose backend_group no backend declares
unknown_groups(config) ==
    LET backend_groups == {config.backends[i].group : i \in 1..Len(config.backends)}
    IN  {i \in 1..Len(config.routes) : config.routes[i].backend_group \notin backend_groups}

\* pool.rs:27-52  BackendManager::new: the groups of the manager, made of
\* the backends whose address parses as a socket address
BackendManager_new(configs) ==
    {configs[i].group : i \in {j \in 1..Len(configs) : configs[j].address_parses}}

\* pool.rs:56-72  BackendManager::get finds the group or logs "Group not
\* found" and returns None
group_found(groups, group_name) == group_name \in groups

GroupNames == {"g1", "g2"}

\* config.backends: the group of each backend and whether its address is a
\* socket address ("127.0.0.1:3000") or not ("localhost:3000")
BackendConfigs == [group : GroupNames, address_parses : BOOLEAN]

\* config.routes: the group each route forwards to
GroupRouteConfigs == [backend_group : GroupNames \cup {"g3"}]

SeqsUpTo(S, n) == UNION {[1..k -> S] : k \in 0..n}

ProxyConfigs ==
    [routes : SeqsUpTo(GroupRouteConfigs, MaxRoutes),
     backends : SeqsUpTo(BackendConfigs, MaxBackendConfigs)]

\* loader.rs:36-43  the configurations load_config accepts
Validated == {c \in ProxyConfigs : unknown_groups(c) = {}}

InitGroups ==
    /\ proxy_config \in Validated
    /\ manager_groups = BackendManager_new(proxy_config.backends)
    /\ group_lookup = NoLookup
    /\ GroupsOthersIdle

\* watcher.rs:34-51, server.rs:253-256  a configuration that load_config
\* accepted is built and installed
InstallConfig ==
    \E c \in Validated :
        /\ proxy_config' = c
        /\ manager_groups' = BackendManager_new(c.backends)
        /\ group_lookup' = NoLookup
        /\ UNCHANGED notGroupsVars

\* server.rs:397, 471  a request matched to route i asks the manager for
\* the route's group
GetGroup(i) ==
    /\ i \in 1..Len(proxy_config.routes)
    /\ group_lookup' = [group |-> proxy_config.routes[i].backend_group,
                        found |-> group_found(manager_groups,
                                              proxy_config.routes[i].backend_group)]
    /\ UNCHANGED <<proxy_config, manager_groups, notGroupsVars>>

NextGroups ==
    \/ InstallConfig
    \/ \E i \in 1..MaxRoutes : GetGroup(i)

SpecGroups == InitGroups /\ [][NextGroups]_vars

\* C21: in every installed bundle built from a validated configuration,
\* each route's backend_group is a group of the bundle's BackendManager, and
\* no lookup of a matched route's group finds the group missing.
C21_RoutesResolve ==
    /\ \A i \in 1..Len(proxy_config.routes) :
        proxy_config.routes[i].backend_group \in manager_groups
    /\ group_lookup # NoLookup => group_lookup.found

(* ------------- SpecShutdown: the shutdown broadcast -------------------- *)

\* tokio broadcast: recv() of a Receiver at position pos returns when a
\* value was sent after pos (a value or Lagged) or the Sender is gone
\* (Closed); every task takes any of these as the signal (`_ = recv()`)
recv_ready(pos) == sent > pos \/ ~sender_alive

\* server.rs:268, 291, 302  admin, health monitor and payment watcher are
\* started only if enabled; listener and reloader always
InitShutdown ==
    /\ sent = 0
    /\ sender_alive = TRUE
    /\ task_enabled \in {e \in [Tasks -> BOOLEAN] : e["listener"] /\ e["reloader"]}
    /\ tpc = [t \in Tasks |-> "unspawned"]
    /\ tsub = [t \in Tasks |-> 0]
    /\ ShutdownOthersIdle

\* shutdown.rs:26-28  Shutdown::trigger
Trigger ==
    /\ sender_alive
    /\ sent < MaxTriggers
    /\ sent' = sent + 1
    /\ UNCHANGED <<sender_alive, task_enabled, tpc, tsub, notShutdownVars>>

\* the Shutdown coordinator is dropped
ShutdownDropped ==
    /\ sender_alive
    /\ sender_alive' = FALSE
    /\ UNCHANGED <<sent, task_enabled, tpc, tsub, notShutdownVars>>

\* server.rs:231-375  HttpServer::run spawns the tasks. The listener keeps
\* the Receiver run was given (subscribed before any trigger); every other
\* task gets shutdown.resubscribe(), which starts at the channel's tail
RunStarts ==
    /\ tpc["listener"] = "unspawned"
    /\ tpc' = [t \in Tasks |-> IF task_enabled[t] THEN "loop" ELSE "unspawned"]
    /\ tsub' = [t \in Tasks |-> IF t = "listener" THEN 0 ELSE sent]
    /\ UNCHANGED <<sent, sender_alive, task_enabled, notShutdownVars>>

\* a task takes the other branch of its select!, or the next round of its
\* loop: a configuration to build, a tick of the health monitor, a
\* connection to serve, a poll of the payment watcher
TaskWorks(t) ==
    /\ tpc[t] = "loop"
    /\ tpc' = [tpc EXCEPT ![t] = "busy"]
    /\ UNCHANGED <<sent, sender_alive, task_enabled, tsub, notShutdownVars>>

\* the work is done and the task is back at the head of its loop
TaskLoops(t) ==
    /\ tpc[t] = "busy"
    /\ tpc' = [tpc EXCEPT ![t] = "loop"]
    /\ UNCHANGED <<sent, sender_alive, task_enabled, tsub, notShutdownVars>>

\* server.rs:258-261, 279, 352, 368, active.rs:59-62  the task's recv()
\* returns and the task leaves its loop; monitor.rs:71-77: the payment
\* watcher's loop has no such branch
TaskObserves(t) ==
    /\ tpc[t] = "loop"
    /\ HasReceiver(t)
    /\ recv_ready(tsub[t])
    /\ tpc' = [tpc EXCEPT ![t] = "exited"]
    /\ UNCHANGED <<sent, sender_alive, task_enabled, tsub, notShutdownVars>>

TaskStep(t) == TaskWorks(t) \/ TaskLoops(t) \/ TaskObserves(t)

NextShutdown ==
    \/ Trigger
    \/ ShutdownDropped
    \/ RunStarts
    \/ \E t \in Tasks : TaskStep(t)

\* select! picks among its ready branches at random, so a recv() that is
\* ready again and again is taken; work that was started finishes
SpecShutdown ==
    /\ InitShutdown
    /\ [][NextShutdown]_vars
    /\ \A t \in Tasks : SF_vars(TaskObserves(t)) /\ WF_vars(TaskLoops(t))

\* C22: after Shutdown::trigger, every long-running task that was started
\* eventually has left its loop, and stays so.
C22_AllTasksExit ==
    [](sent > 0 => <>[](\A t \in Tasks : tpc[t] \in {"unspawned", "exited"}))

(* ------- SpecMarks: health marks and the request timeout --------------- *)

\* attempts made by requests whose handler may be cut short by the request
\* timeout; every attempt sent and every mark applied is counted
InitMarks ==
    /\ health_config \in PoolHealthConfigs
    /\ retry_config \in AnyRetryConfigs
    /\ \E m \in 1..MaxConnections : backends = [b \in BackendIds |-> NewBackend(m)]
    /\ counter = 0
    /\ budget = NewRetryBudget(10, 100)
    /\ rpc = [r \in Requests |-> "idle"]
    /\ rbackend = [r \in Requests |-> 0]
    /\ attempts = [r \in Requests |-> 0]
    /\ method = [r \in Requests |-> "GET"]
    /\ max_attempts = [r \in Requests |-> 1]
    /\ probe_idx = 1
    /\ down = [b \in BackendIds |-> FALSE]
    /\ failedProbes = [b \in BackendIds |-> 0]
    /\ ScenarioIdle
    /\ GuardIdle
    /\ HealthIdle
    /\ BudgetIdle
    /\ LongIdle
    /\ TrackerIdle
    /\ ReloadIdle
    /\ LaterIdle

\* server.rs:480-526  client.request(req): the attempt is sent
AttemptSent(r) ==
    /\ rpc[r] = "guard"
    /\ rpc' = [rpc EXCEPT ![r] = "sent"]
    /\ received' = [received EXCEPT ![r] = received[r] + 1]
    /\ marks' = [marks EXCEPT ![r].last = "none", ![r].outcome = NoOutcome]
    /\ UNCHANGED <<backends, counter, budget, rbackend, attempts, method, max_attempts,
                   probe_idx, down, failedProbes, script, planned, answer, cfgVars,
                   otherPartsVars>>

\* server.rs:562-573, 592  the mark classify applies for outcome o
mark_of(o) == IF o.error \/ o.status \in {502, 503, 504} THEN "failure" ELSE "success"

\* what the upstream answers to an attempt: a transport error, a response
\* with one of the statuses, or a text/event-stream response
MarkOutcomes ==
    {[error |-> TRUE, status |-> 0, sse |-> FALSE]}
    \cup [error : {FALSE}, status : {200, 301, 404, 500, 502, 503, 504}, sse : {FALSE}]
    \cup [error : {FALSE}, status : {200, 503}, sse : {TRUE}]

\* server.rs:526-595  the outcome of the attempt arrives. The retry
\* condition is evaluated left to right: attempts < max_attempts,
\* is_retryable, retry_budget.can_retry() (which counts the retry), and only
\* then !is_sse. A retried attempt goes to its backoff sleep without a mark.
\* Otherwise an SSE response of a user at the long-lived limit (at_limit) is
\* answered 429 before any mark; any other outcome marks the backend and is
\* returned (502 for a transport error). The guard is dropped on return.
OutcomeHandled(r) ==
    /\ rpc[r] = "sent"
    /\ \E o \in MarkOutcomes, at_limit \in BOOLEAN :
        LET b == rbackend[r]
            gate == retry_gate(attempts[r], max_attempts[r], method[r], o)
            cr == IF gate THEN can_retry(budget) ELSE [ok |-> FALSE, budget |-> budget]
        IN  /\ budget' = cr.budget
            /\ IF gate /\ cr.ok /\ ~o.sse
               THEN /\ rpc' = [rpc EXCEPT ![r] = "backoff"]
                    /\ marks' = [marks EXCEPT ![r].outcome = o]
                    /\ UNCHANGED <<backends, rbackend, attempts, method, max_attempts,
                                   answer>>
               ELSE IF o.sse /\ at_limit
               THEN /\ backends' = [backends EXCEPT ![b] = dec_connections(backends[b])]
                    /\ Returned(r, "done")
                    /\ marks' = [marks EXCEPT ![r].outcome = o]
                    /\ answer' = [answer EXCEPT ![r] = 429]
               ELSE /\ backends' = [backends EXCEPT ![b] =
                                       dec_connections(classify(backends[b], o))]
                    /\ Returned(r, "done")
                    /\ marks' = [marks EXCEPT ![r] =
                                    [n |-> @.n + 1, last |-> mark_of(o), outcome |-> o]]
                    /\ answer' = [answer EXCEPT ![r] = IF o.error THEN 502 ELSE o.status]
    /\ UNCHANGED <<counter, probe_idx, down, failedProbes, script, planned, received,
                   cfgVars, otherPartsVars>>

\* server.rs:207-212  TimeoutLayer: timeouts.request_secs elapse while the
\* handler awaits the upstream response or its backoff sleep. The layer
\* drops the handler's future, its guard with it, and answers 504; no code
\* of the handler runs any more
RequestTimedOut(r) ==
    /\ rpc[r] \in {"sent", "backoff"}
    /\ backends' = [backends EXCEPT ![rbackend[r]] = dec_connections(backends[rbackend[r]])]
    /\ Returned(r, "done")
    /\ answer' = [answer EXCEPT ![r] = 504]
    /\ UNCHANGED <<counter, budget, probe_idx, down, failedProbes, script, planned,
                   received, marks, cfgVars, otherPartsVars>>

NextMarks ==
    \E r \in Requests :
        \/ StartRequest(r)
        \/ NextServer(r)
        \/ TryCreateGuard(r)
        \/ AttemptSent(r)
        \/ OutcomeHandled(r)
        \/ ContinueLoop(r)
        \/ RequestTimedOut(r)

SpecMarks ==
    InitMarks /\ [][NextMarks]_vars /\ \A r \in Requests : WF_vars(OutcomeHandled(r))

\* the attempts of request r whose outcome is known or that were cut short
Finished(r) == IF rpc[r] = "sent" THEN received[r] - 1 ELSE received[r]

\* C23: when the request timeout elapses during an upstream attempt, the
\* client is answered 504, the backend slot is released, and mark_failure
\* is applied to the backend for that attempt.
C23_TimeoutMarksFailure ==
    \A r \in Requests :
        rpc[r] = "done" /\ answer[r] = 504 =>
            /\ rbackend[r] = 0
            /\ \A b \in BackendIds :
                backends[b].active_connections
                    = Cardinality({q \in Requests :
                                      rbackend[q] = b
                                      /\ rpc[q] \in {"guard", "sent", "backoff"}})
            /\ marks[r].last = "failure"

\* C28: each upstream attempt of a request, one that is retried included,
\* applies exactly one mark_success or mark_failure to the backend that
\* served it: once an attempt is over, the marks applied for the request
\* are as many as its attempts.
C28_OneMarkPerAttempt ==
    \A r \in Requests : marks[r].n = Finished(r)

(* ------- SpecBody: the body each upstream attempt carries --------------- *)

Bytes == {0, 1}

\* the inbound bodies: byte strings of at most MaxBodyLen bytes
Bodies == SeqsUpTo(Bytes, MaxBodyLen)

\* Body::empty()
EmptyBody == <<>>

\* axum::body::to_bytes(b, limit): the bytes, or an error when the body is
\* longer than limit or its stream fails
to_bytes(b, read_ok, limit) ==
    IF read_ok /\ Len(b) <= limit THEN Some(b) ELSE None

\* server.rs:446-457  body_bytes and what is left in body_opt: the body is
\* taken out of body_opt whenever buffering is tried
buffer_body(cfg, req) ==
    IF cfg.enabled /\ is_idempotent(req.method)
    THEN [body_bytes |-> to_bytes(req.body, req.read_ok, BufferLimit), body_opt |-> None]
    ELSE [body_bytes |-> None, body_opt |-> Some(req.body)]

\* server.rs:514-520  the body of attempt number n
req_body(bytes, opt, n) ==
    IF bytes.some THEN bytes.v
    ELSE IF n = 1 THEN (IF opt.some THEN opt.v ELSE EmptyBody)
    ELSE EmptyBody

BodyMethods == {"GET", "PUT", "POST"}

InitBody ==
    /\ health_config = [healthy_threshold |-> 1, unhealthy_threshold |-> 1]
    /\ retry_config \in AnyRetryConfigs
    /\ inbound \in [method : BodyMethods, body : Bodies, read_ok : BOOLEAN]
    /\ body_bytes = None
    /\ body_opt = None
    /\ body_pc = "arrived"
    /\ body_attempts = 0
    /\ body_max = 1
    /\ sent_bodies = <<>>
    /\ GuardIdle /\ HealthIdle /\ PoolIdle /\ BudgetIdle /\ LongIdle
    /\ TrackerIdle /\ ReloadIdle /\ ScenarioIdle /\ BucketIdle /\ GateIdle /\ RouterIdle
    /\ BodyRestIdle

\* server.rs:408-466  into_parts, the buffering of the body, max_attempts
BufferBody ==
    LET buf == buffer_body(retry_config, inbound) IN
    /\ body_pc = "arrived"
    /\ body_bytes' = buf.body_bytes
    /\ body_opt' = buf.body_opt
    /\ body_max' = attempts_allowed(retry_config, inbound.method, buf.body_bytes.some)
    /\ body_attempts' = 0
    /\ body_pc' = "loop"
    /\ UNCHANGED <<inbound, sent_bodies, notBodyVars>>

\* server.rs:468-524  one more attempt: a backend is selected and the
\* request is built with req_body and sent (body_opt is taken by the first
\* attempt that streams it)
BodyAttempt ==
    /\ body_pc = "loop"
    /\ body_attempts' = body_attempts + 1
    /\ sent_bodies' = Append(sent_bodies, req_body(body_bytes, body_opt, body_attempts + 1))
    /\ body_opt' = IF ~body_bytes.some /\ body_attempts + 1 = 1 THEN None ELSE body_opt
    /\ body_pc' = "sent"
    /\ UNCHANGED <<inbound, body_bytes, body_max, notBodyVars>>

\* server.rs:471-478  no backend is available: 503 without an attempt
BodyNoBackend ==
    /\ body_pc = "loop"
    /\ body_attempts' = body_attempts + 1
    /\ body_pc' = "done"
    /\ UNCHANGED <<inbound, body_bytes, body_opt, body_max, sent_bodies, notBodyVars>>

\* server.rs:526-595  the outcome of the attempt: retried when the gate and
\* the retry budget (shared with the other requests) allow it
BodyOutcome ==
    /\ body_pc = "sent"
    /\ \E o \in Outcomes(1), budget_ok \in BOOLEAN :
        body_pc' = IF retry_gate(body_attempts, body_max, inbound.method, o) /\ budget_ok
                   THEN "loop" ELSE "done"
    /\ UNCHANGED <<inbound, body_bytes, body_opt, body_attempts, body_max, sent_bodies,
                   notBodyVars>>

NextBody == BufferBody \/ BodyAttempt \/ BodyNoBackend \/ BodyOutcome

SpecBody == InitBody /\ [][NextBody]_vars

\* C30: every upstream attempt carries the inbound body (the first the
\* buffered bytes or the streamed body, every later one the buffered
\* bytes), never an empty or truncated body in its place; and a request
\* whose body was not buffered makes no attempt after the first.
C30_AttemptsCarryBody ==
    /\ \A i \in 1..Len(sent_bodies) : sent_bodies[i] = inbound.body
    /\ body_pc # "arrived" /\ ~body_bytes.some => Len(sent_bodies) <= 1

(* ------- SpecLife: what a reload keeps and what it replaces ------------- *)

\* one rate-limit key and one subscriber are enough to make the installed
\* state differ from a newly built one
LifeKeys == {1}
LifeUsers == {1}

InitLife ==
    /\ life_file \in SUBSET LifeUsers
    /\ \E c \in LifeConfigs : life_inner = build_inner(c, life_file)
    /\ life_quiet = FALSE
    /\ life_twice = FALSE
    /\ life_reloads = 0
    /\ LifeOthersIdle

\* something happened to the installed state since the latest reload
Touched == /\ life_quiet' = FALSE
           /\ life_twice' = FALSE
           /\ UNCHANGED <<life_reloads, notLifeVars>>

\* server.rs:388-466  a request of key k arrives at the installed bundle:
\* request_count, its rate-limit bucket, the retry budget's denominator, and
\* a slot of the first backend when it has one free
LifeRequest(k) ==
    LET lim == rate_limits(DefaultRateConfig, 0)
        bucket == IF k \in DOMAIN life_inner.buckets THEN life_inner.buckets[k]
                  ELSE NewTokenBucket(lim.burst, 0)
        acq == try_acquire(bucket, lim.burst, lim.rps, 0)
        g == try_create_guard(life_inner.backends[1])
    IN
    /\ life_inner.request_count < MaxLifeRequests
    /\ life_inner' = [life_inner EXCEPT
            !.request_count = @ + 1,
            !.buckets = Insert(@, k, acq.bucket),
            !.retry_budget = IF acq.ok THEN record_request(@) ELSE @,
            !.backends[1] = IF acq.ok THEN g.backend ELSE @]
    /\ UNCHANGED life_file
    /\ Touched

\* server.rs:531-540, 580-589  an attempt in flight is retried
LifeRetry ==
    /\ life_inner.backends[1].active_connections > 0
    /\ life_inner.retry_budget.total_retries < MaxLifeRequests
    /\ life_inner' = [life_inner EXCEPT !.retry_budget = can_retry(@).budget]
    /\ UNCHANGED life_file
    /\ Touched

\* server.rs:562-595  the attempt in flight ends with outcome o: the backend
\* is marked and the guard dropped
LifeResponse ==
    /\ life_inner.backends[1].active_connections > 0
    /\ \E o \in Outcomes(1) :
        life_inner' = [life_inner EXCEPT
            !.backends[1] = dec_connections(classify(@, o))]
    /\ UNCHANGED life_file
    /\ Touched

\* websocket.rs:28-37  a long-lived connection of user u is admitted
LifeLongLived(u) ==
    LET inc == try_increment(life_inner.counts, DefaultQosConfig, u, 1) IN
    /\ inc.ok
    /\ life_inner' = [life_inner EXCEPT !.counts = inc.counts]
    /\ UNCHANGED life_file
    /\ Touched

\* processor.rs:10-21  a payment of user u updates the cache the payment
\* monitor holds, that of the bundle installed when run started
LifePayment(u) ==
    /\ life_reloads = 0
    /\ u \notin life_inner.subscription_cache
    /\ life_inner' = [life_inner EXCEPT !.subscription_cache = @ \cup {u}]
    /\ UNCHANGED life_file
    /\ Touched

\* subscriptions.json is replaced from outside the proxy
LifeFileChanged ==
    /\ \E f \in SUBSET LifeUsers : f # life_file /\ life_file' = f
    /\ UNCHANGED life_inner
    /\ Touched

\* a plausible slip: the new routes are added to the installed table
store_Merge(old, new) == [new EXCEPT !.router = old.router \o new.router]

\* ArcSwap::store: the pointer is replaced
store(old, new) == new

\* server.rs:253-256  the reloader receives configuration c, builds a new
\* InnerState and stores it
ReloaderApply(c) ==
    /\ life_reloads < MaxReloads
    /\ life_inner' = store(life_inner, build_inner(c, life_file))
    /\ life_twice' = (life_quiet /\ c = life_inner.config)
    /\ life_quiet' = TRUE
    /\ life_reloads' = life_reloads + 1
    /\ UNCHANGED <<life_file, notLifeVars>>

NextLife ==
    \/ \E k \in LifeKeys : LifeRequest(k)
    \/ LifeRetry
    \/ LifeResponse
    \/ \E u \in LifeUsers : LifeLongLived(u)
    \/ \E u \in LifeUsers : LifePayment(u)
    \/ LifeFileChanged
    \/ \E c \in LifeConfigs : ReloaderApply(c)

SpecLife == InitLife /\ [][NextLife]_vars

\* C24: total_requests and total_retries of the retry budget that requests
\* see never decrease, a configuration reload included.
C24_BudgetMonotonic ==
    [][/\ life_inner'.retry_budget.total_requests >= life_inner.retry_budget.total_requests
       /\ life_inner'.retry_budget.total_retries >= life_inner.retry_budget.total_retries]_vars

InitAdmit ==
    /\ adm_pc = [r \in Requests |-> "idle"]
    /\ adm_kind = [r \in Requests |-> "plain"]
    /\ adm_ctx = [r \in Requests |-> FALSE]
    /\ adm_acquired = [r \in Requests |-> FALSE]
    /\ adm_sent = [r \in Requests |-> FALSE]
    /\ adm_reject = [r \in Requests |-> "none"]
    /\ adm_counts = NoCounts
    /\ \E m \in 1..MaxConnections : adm_backend = NewBackend(m)
    /\ AdmitOthersIdle

\* the UserContext of the model's requests: one user, of tier 1
AdmitContext == [address |-> 1, tier_id |-> 1]

\* the handler returns for request r: its guard, if it holds one, is dropped
AdmitReturn(r, pc, reason) ==
    /\ adm_pc' = [adm_pc EXCEPT ![r] = pc]
    /\ adm_reject' = [adm_reject EXCEPT ![r] = reason]

\* server.rs:162-180, access_control.rs:31-77, rate_limit.rs:97-128  the
\* middleware layers: the gate answers 401 or 403 or passes the request on,
\* with a UserContext when payments are enabled; then the rate limit
\* answers 429 or passes it to proxy_handler
AdmitLayers(r) ==
    /\ adm_pc[r] = "idle"
    /\ \E kind \in {"plain", "ws", "sse"}, verdict \in {"pass", "401", "403"},
          ctx \in BOOLEAN, rate_ok \in BOOLEAN :
        /\ adm_kind' = [adm_kind EXCEPT ![r] = kind]
        /\ adm_ctx' = [adm_ctx EXCEPT ![r] = ctx /\ verdict = "pass"]
        /\ IF verdict # "pass" THEN AdmitReturn(r, "done", verdict)
           ELSE IF ~rate_ok THEN AdmitReturn(r, "done", "429 rate limit")
           ELSE AdmitReturn(r, "handler", "none")
    /\ UNCHANGED <<adm_acquired, adm_sent, adm_counts, adm_backend, notAdmitVars>>

\* server.rs:429-433  a WebSocket upgrade: backends.get(&route.backend_group)
\* acquires a slot; without a backend the request goes on to the attempt loop
WsGetBackend(r) ==
    LET g == try_create_guard(adm_backend) IN
    /\ adm_pc[r] = "handler" /\ adm_kind[r] = "ws"
    /\ adm_backend' = g.backend
    /\ adm_acquired' = [adm_acquired EXCEPT ![r] = g.ok]
    /\ adm_pc' = [adm_pc EXCEPT ![r] = IF g.ok THEN "ws_upgrade" ELSE "loop"]
    /\ UNCHANGED <<adm_kind, adm_ctx, adm_sent, adm_reject, adm_counts, notAdmitVars>>

\* server.rs:440-441, websocket.rs:22-54  handle_ws_upgrade: the long-lived
\* limit of the user is checked (429 when reached), the upgrade is answered
\* and the handler returns, dropping backend_guard
WsUpgrade(r) ==
    LET inc == try_increment(adm_counts, DefaultQosConfig, AdmitContext.address,
                             AdmitContext.tier_id) IN
    /\ adm_pc[r] = "ws_upgrade"
    /\ adm_backend' = dec_connections(adm_backend)
    /\ IF adm_ctx[r]
       THEN /\ adm_counts' = inc.counts
            /\ IF inc.ok THEN AdmitReturn(r, "open", "none")
               ELSE AdmitReturn(r, "done", "429 websocket limit")
       ELSE /\ UNCHANGED adm_counts
            /\ AdmitReturn(r, "open", "none")
    /\ UNCHANGED <<adm_kind, adm_ctx, adm_acquired, adm_sent, notAdmitVars>>

\* server.rs:468-478  the attempt loop selects a backend and acquires a slot,
\* or answers 503
GetBackend(r) ==
    LET g == try_create_guard(adm_backend) IN
    /\ \/ adm_pc[r] = "handler" /\ adm_kind[r] # "ws"
       \/ adm_pc[r] = "loop"
    /\ adm_backend' = g.backend
    /\ adm_acquired' = [adm_acquired EXCEPT ![r] = g.ok]
    /\ adm_pc' = [adm_pc EXCEPT ![r] = IF g.ok THEN "guard" ELSE "done"]
    /\ UNCHANGED <<adm_kind, adm_ctx, adm_sent, adm_reject, adm_counts, notAdmitVars>>

\* server.rs:480-526  the upstream request is sent
SendUpstream(r) ==
    /\ adm_pc[r] = "guard"
    /\ adm_sent' = [adm_sent EXCEPT ![r] = TRUE]
    /\ adm_pc' = [adm_pc EXCEPT ![r] = "sent"]
    /\ UNCHANGED <<adm_kind, adm_ctx, adm_acquired, adm_reject, adm_counts, adm_backend,
                   notAdmitVars>>

\* server.rs:526-575  the upstream answers; for a text/event-stream response
\* of a request with a UserContext the long-lived limit is checked (429 when
\* reached); the handler returns, dropping backend_guard
UpstreamResponse(r) ==
    LET inc == try_increment(adm_counts, DefaultQosConfig, AdmitContext.address,
                             AdmitContext.tier_id) IN
    /\ adm_pc[r] = "sent"
    /\ adm_backend' = dec_connections(adm_backend)
    /\ \E is_sse \in {adm_kind[r] = "sse"} :
        IF is_sse /\ adm_ctx[r]
        THEN /\ adm_counts' = inc.counts
             /\ IF inc.ok THEN AdmitReturn(r, "open", "none")
                ELSE AdmitReturn(r, "done", "429 sse limit")
        ELSE /\ UNCHANGED adm_counts
             /\ AdmitReturn(r, "done", "none")
    /\ UNCHANGED <<adm_kind, adm_ctx, adm_acquired, adm_sent, notAdmitVars>>

\* websocket.rs:46-52, server.rs SseGuard::drop  the long-lived connection
\* ends and is taken off the tracker
LongLivedClosed(r) ==
    /\ adm_pc[r] = "open"
    /\ adm_counts' = IF adm_ctx[r] THEN decrement(adm_counts, AdmitContext.address) ELSE adm_counts
    /\ adm_pc' = [adm_pc EXCEPT ![r] = "done"]
    /\ UNCHANGED <<adm_kind, adm_ctx, adm_acquired, adm_sent, adm_reject, adm_backend,
                   notAdmitVars>>

NextAdmit ==
    \E r \in Requests :
        \/ AdmitLayers(r)
        \/ WsGetBackend(r)
        \/ WsUpgrade(r)
        \/ GetBackend(r)
        \/ SendUpstream(r)
        \/ UpstreamResponse(r)
        \/ LongLivedClosed(r)

SpecAdmit == InitAdmit /\ [][NextAdmit]_vars

\* C29: every admission rejection (401 or 403 of the gate, 429 of the rate
\* limit, 429 of the long-lived limit for a WebSocket or an SSE stream) is
\* decided before the request has acquired a backend slot and before an
\* upstream request was sent for it.
C29_AdmissionFirst ==
    \A r \in Requests :
        adm_reject[r] # "none" => ~adm_acquired[r] /\ ~adm_sent[r]

(* ------- SpecRoundRobin: the rotation and the usize counter ------------- *)

\* usize::MAX + 1
UsizeModulus == 2 ^ UsizeBits

\* AtomicUsize::fetch_add(1): the counter wraps around at usize::MAX
fetch_add(ctr) == (ctr + 1) % UsizeModulus

\* round_robin.rs:31-37  the loop from index i on, in usize arithmetic:
\* start_count + i panics on overflow in a build with overflow checks and
\* wraps around in one without; the backend returned (0 for None), the
\* positions looked at, and whether the call panicked
RECURSIVE scan_usize(_, _, _, _)
scan_usize(healthy, start_count, i, checks) ==
    LET len == Len(healthy) IN
    IF i >= len
    THEN [backend |-> 0, scanned |-> i, panicked |-> FALSE]
    ELSE IF checks /\ start_count + i >= UsizeModulus
    THEN [backend |-> 0, scanned |-> i, panicked |-> TRUE]
    ELSE LET index == ((start_count + i) % UsizeModulus) % len IN
         IF healthy[index + 1]
         THEN [backend |-> index + 1, scanned |-> i + 1, panicked |-> FALSE]
         ELSE scan_usize(healthy, start_count, i + 1, checks)

\* the call has not returned yet
Pending == [backend |-> 0, scanned |-> 0, panicked |-> FALSE]

RrCallers == 1..RrThreads

InitRoundRobin ==
    /\ rr_counter = 0
    /\ rr_healthy \in [1..RrBackends -> BOOLEAN]
    /\ rr_checks \in BOOLEAN
    /\ rr_pc = [t \in RrCallers |-> "idle"]
    /\ rr_call = [t \in RrCallers |-> 0]
    /\ rr_log = <<>>
    /\ RoundRobinOthersIdle

\* round_robin.rs:22-29  next_server begins: fetch_add on the counter
RrFetchAdd(t) ==
    /\ rr_pc[t] = "idle"
    /\ Len(rr_log) < RrMaxCalls
    /\ rr_counter' = fetch_add(rr_counter)
    /\ rr_log' = Append(rr_log, [start_count |-> rr_counter, done |-> FALSE, res |-> Pending])
    /\ rr_call' = [rr_call EXCEPT ![t] = Len(rr_log) + 1]
    /\ rr_pc' = [rr_pc EXCEPT ![t] = "scan"]
    /\ UNCHANGED <<rr_healthy, rr_checks, notRoundRobinVars>>

\* round_robin.rs:31-38  the loop over the backends and the return
RrScan(t) ==
    LET k == rr_call[t] IN
    /\ rr_pc[t] = "scan"
    /\ rr_log' = [rr_log EXCEPT ![k].done = TRUE,
                                ![k].res = scan_usize(rr_healthy, rr_log[k].start_count, 0,
                                                      rr_checks)]
    /\ rr_pc' = [rr_pc EXCEPT ![t] = "idle"]
    /\ UNCHANGED <<rr_counter, rr_healthy, rr_checks, rr_call, notRoundRobinVars>>

NextRoundRobin == \E t \in RrCallers : RrFetchAdd(t) \/ RrScan(t)

SpecRoundRobin == InitRoundRobin /\ [][NextRoundRobin]_vars

AllSelectable == \A b \in 1..RrBackends : rr_healthy[b]

\* the calls k .. k + RrBackends - 1 have all returned
WindowDone(k) == \A j \in 0..(RrBackends - 1) : rr_log[k + j].done

\* C26: with all N backends selectable, any N consecutive next_server
\* calls return each backend exactly once, in list order starting at
\* counter mod N; calls in progress at the same time hold distinct counter
\* values; and every call returns after looking at no more than N positions.
C26_RoundRobin ==
    /\ AllSelectable =>
        \A k \in 1..(Len(rr_log) - RrBackends + 1) :
            WindowDone(k) =>
                /\ {rr_log[k + j].res.backend : j \in 0..(RrBackends - 1)} = 1..RrBackends
                /\ \A j \in 0..(RrBackends - 1) :
                    rr_log[k + j].res.backend
                        = (((rr_log[k].start_count % RrBackends) + j) % RrBackends) + 1
    /\ \A t, u \in RrCallers :
        t # u /\ rr_pc[t] = "scan" /\ rr_pc[u] = "scan"
            => rr_log[rr_call[t]].start_count # rr_log[rr_call[u]].start_count
    /\ \A k \in 1..Len(rr_log) :
        rr_log[k].done => ~rr_log[k].res.panicked /\ rr_log[k].res.scanned <= RrBackends

(* ------- SpecLeastConn: LeastConnections::next_server ------------------- *)

\* Iterator::min_by_key over the positions i..Len(bs), best being the
\* position of the smallest key so far: a later element replaces it only
\* with a strictly smaller key, so the first of equal minima is returned
RECURSIVE min_by_key(_, _, _)
min_by_key(bs, i, best) ==
    IF i > Len(bs) THEN best
    ELSE IF bs[i].active_connections < bs[best].active_connections
    THEN min_by_key(bs, i + 1, i)
    ELSE min_by_key(bs, i + 1, best)

\* least_conn.rs:19-30  LeastConnections::next_server: the position of the
\* backend returned, 0 for None
least_conn_next_server(bs) ==
    IF Len(bs) = 0 THEN 0 ELSE min_by_key(bs, 2, 1)

\* the backends a group can hold: any health state, max_connections of at
\* least 1 and no more connections than that
LcBackendStates ==
    {b \in [max_connections : 1..LcMaxConnections,
            active_connections : 0..LcMaxConnections,
            state : HealthState,
            consecutive_failures : {0},
            consecutive_successes : {0}] : b.active_connections <= b.max_connections}

InitLeastConn ==
    /\ lc_backends \in SeqsUpTo(LcBackendStates, LcMaxBackends)
    /\ lc_result = -1
    /\ LeastConnOthersIdle

\* pool.rs:60  group.1.next_server(&group.0)
LcNextServer ==
    /\ lc_result = -1
    /\ lc_result' = least_conn_next_server(lc_backends)
    /\ UNCHANGED <<lc_backends, notLeastConnVars>>

NextLeastConn == LcNextServer

SpecLeastConn == InitLeastConn /\ [][NextLeastConn]_vars

\* selectable and not saturated
Eligible(bs) ==
    {i \in 1..Len(bs) :
        is_healthy(bs[i]) /\ bs[i].active_connections < bs[i].max_connections}

\* C27: LeastConnections::next_server returns, among the backends that are
\* selectable (not Unhealthy) and not saturated, the one with the fewest
\* active connections, the first in list order on a tie; never an Unhealthy
\* or saturated one; None when no backend is eligible.
C27_LeastConnections ==
    lc_result # -1 =>
        LET el == Eligible(lc_backends) IN
        IF el = {} THEN lc_result = 0
        ELSE /\ lc_result \in el
             /\ \A i \in el :
                 \/ lc_backends[lc_result].active_connections
                        < lc_backends[i].active_connections
                 \/ /\ lc_backends[lc_result].active_connections
                        = lc_backends[i].active_connections
                    /\ lc_result <= i

(* ------- the final outcome, the budget's two counters (SpecMarks) ------- *)

\* the step is the arrival of the outcome of request r's attempt, and the
\* attempt is not retried
FinalOutcome(r) ==
    /\ rpc[r] = "sent" /\ rpc'[r] = "done"
    /\ marks[r].outcome = NoOutcome /\ marks'[r].outcome # NoOutcome

\* C31: when an attempt is not retried, a response with status 502, 503 or
\* 504 applies mark_failure and any other status mark_success to the backend
\* that served it, and the client receives the upstream status; a transport
\* error applies mark_failure and the client receives 502.
C31_FinalClassification ==
    [][\A r \in Requests :
          FinalOutcome(r) =>
              LET o == marks'[r].outcome
                  b == rbackend[r]
              IN  /\ backends'[b] = dec_connections(
                         IF o.error \/ o.status \in {502, 503, 504}
                         THEN mark_failure(backends[b], health_config.unhealthy_threshold)
                         ELSE mark_success(backends[b], health_config.healthy_threshold))
                  /\ answer'[r] = IF o.error THEN 502 ELSE o.status]_vars

\* C32: total_requests is incremented exactly once per inbound request that
\* enters forwarding, however many attempts the request makes: it is the
\* number of requests that have entered forwarding.
C32_OncePerRequest ==
    budget.total_requests = Cardinality({r \in Requests : rpc[r] # "idle"})

\* C32's case: both requests have entered forwarding and one of them is in
\* its second attempt
C32_Witness ==
    /\ \A r \in Requests : rpc[r] # "idle"
    /\ \E r \in Requests : attempts[r] = 2 /\ rpc[r] = "sent"

\* C37: total_retries counts only retries that are performed: a step in
\* which can_retry returns true and increments total_retries sends the
\* request into its backoff sleep and next attempt; an SSE response with
\* status 502, 503 or 504, which is never retried, consumes no budget.
C37_RetriesArePerformed ==
    [][budget'.total_retries > budget.total_retries =>
          \E r \in Requests : rpc[r] = "sent" /\ rpc'[r] = "backoff"]_vars

(* ------- SpecUnrouted: requests that match no route --------------------- *)

\* the route table of the bundle: the routes of host a
GateRoutes == from_config(ScenarioRoutes)

\* a request for a path of host a, which has a route, or for host b, which
\* has none
GateTargets ==
    {[host |-> Some(<<"a">>), path |-> <<"/", "x">>, method |-> "GET"],
     [host |-> Some(<<"b">>), path |-> <<"/">>, method |-> "GET"]}

\* what the layers of the gate leave alone besides the gate's own variables
gateFrame == <<cfgVars, guardVars, healthVars, poolVars, budgetVars, longVars, trackerVars,
               reloadVars, scenarioVars, rate_config, ktier, clock, bcall, hist,
               routerVars, unroutedRestVars>>

\* server.rs:158-161  a request arrives at the router built by build_inner:
\* "/{*path}" and "/" hand every path to the layers and proxy_handler
ArriveAtRouter(r) ==
    /\ apath[r] = <<>> /\ astatus[r] = "none"
    /\ \E h \in Headers : ahdr' = [ahdr EXCEPT ![r] = h]
    /\ \E q \in GateTargets : areq' = [areq EXCEPT ![r] = q]
    /\ apath' = [apath EXCEPT ![r] = build_router(rate_limit_enabled)]
    /\ UNCHANGED <<gateConfigVars, now_secs, atrace, agate, astatus, buckets, gateFrame>>

\* server.rs:397-406  proxy_handler looks the route up: 404 on None,
\* otherwise the request is forwarded
ProxyHandlerRoutes(r) ==
    /\ apath[r] # <<>> /\ Head(apath[r]) = "proxy_handler"
    /\ atrace' = [atrace EXCEPT ![r] = Append(@, "proxy_handler")]
    /\ apath' = [apath EXCEPT ![r] = <<>>]
    /\ astatus' = [astatus EXCEPT ![r] =
                      IF match_request(GateRoutes, areq[r]) = NoRoute
                      THEN "404" ELSE "forwarded"]
    /\ UNCHANGED <<gateConfigVars, now_secs, ahdr, agate, buckets, areq, gateFrame>>

NextUnrouted ==
    \/ SecondPasses
    \/ \E r \in GateRequests :
        \/ ArriveAtRouter(r)
        \/ AccessControl(r)
        \/ RateLimit(r)
        \/ ProxyHandlerRoutes(r)
        \/ NextRequest(r)

SpecUnrouted == InitGate /\ [][NextUnrouted]_vars

\* C33: a request that matches no route is answered 404 without the
\* subscription gate or the rate limiter being evaluated: it is not turned
\* into a 401, 403 or 429 and takes no rate-limit token.
C33_RouteBeforeAdmission ==
    \A r \in GateRequests :
        (/\ areq[r] # NoRequest
         /\ match_request(GateRoutes, areq[r]) = NoRoute
         /\ astatus[r] # "none")
            => /\ astatus[r] = "404"
               /\ ~Ran(r, "access_control")
               /\ ~Ran(r, "rate_limit")

(* ------- SpecGen: what follows a bundle through a reload ---------------- *)

\* the backend addresses of the group, the same in every configuration
GenAddrs == {1}
GenGroup == <<1>>

\* the configurations: the thresholds, the backends' max_connections, and
\* whether active health checks and payments are enabled
GenConfigs ==
    [unhealthy_threshold : {1, 2}, healthy_threshold : {1}, max_connections : {1},
     hc_enabled : BOOLEAN, payments_enabled : {TRUE}]

\* subscriptions.json as it is on disk: no user (nothing writes the file)
GenFile == {}

\* server.rs:116-228  build_inner: BackendManager::new makes a new Backend
\* for every address (pool.rs:27-52, backend.rs:56-67), and the subscription
\* cache is loaded from the file
gen_build_inner(config) ==
    [ config   |-> config,
      backends |-> [a \in GenAddrs |-> NewBackend(config.max_connections)],
      cache    |-> GenFile ]

\* the index of the installed bundle
Installed == Len(gen_bundles)

\* the requests in flight to the backend at address a, of whatever bundle
InFlight(a) == {r \in Requests : gen_req[r].pc = "sent" /\ gen_req[r].backend = a}

\* the monitor was spawned by run: health_check.enabled in the configuration
\* the server started with
MonitorRuns == gen_bundles[1].config.hc_enabled

\* every backend of the installed group is Unhealthy, no request has loaded
\* a bundle or is in flight, and no monitor runs
DeadNow ==
    /\ \A a \in GenAddrs : gen_bundles[Installed].backends[a].state = "Unhealthy"
    /\ \A r \in Requests : gen_req[r].pc \in {"idle", "done", "unavailable"}
    /\ ~MonitorRuns

Observed == gen_dead' = (gen_dead \/ DeadNow')

InitGen ==
    /\ \E c \in GenConfigs : gen_bundles = <<gen_build_inner(c)>>
    /\ gen_req = [r \in Requests |-> GenNoRequest]
    /\ gen_tick = GenNoTick
    /\ gen_updates = {}
    /\ gen_dead = FALSE
    /\ GenOthersIdle

\* server.rs:328-335  a request arrives: the master router loads the
\* installed InnerState and the request is handled against it to its end
GenLoad(r) ==
    /\ gen_req[r].pc = "idle"
    /\ gen_req' = [gen_req EXCEPT ![r] = [pc |-> "loaded", bundle |-> Installed,
                                          backend |-> 0]]
    /\ UNCHANGED <<gen_bundles, gen_tick, gen_updates, notGenVars>>
    /\ Observed

\* server.rs:468-526, pool.rs:56-62  BackendManager::get on the bundle of
\* the request: a backend that is_healthy and has a free slot is taken and
\* the attempt is sent, else the request is answered 503
GenGet(r) ==
    LET i == gen_req[r].bundle
        a == next_server(gen_bundles[i].backends, GenGroup, 0).backend
        g == try_create_guard(gen_bundles[i].backends[a])
    IN
    /\ gen_req[r].pc = "loaded"
    /\ IF a # 0 /\ g.ok
       THEN /\ gen_bundles' = [gen_bundles EXCEPT ![i].backends[a] = g.backend]
            /\ gen_req' = [gen_req EXCEPT ![r].pc = "sent", ![r].backend = a]
       ELSE /\ gen_req' = [gen_req EXCEPT ![r].pc = "unavailable"]
            /\ UNCHANGED gen_bundles
    /\ UNCHANGED <<gen_tick, gen_updates, notGenVars>>
    /\ Observed

\* server.rs:562-595  the attempt ends: the backend of the request's bundle
\* is marked with the thresholds of that bundle and the guard is dropped
GenResponse(r) ==
    LET i == gen_req[r].bundle
        a == gen_req[r].backend
        cfg == gen_bundles[i].config
        b == gen_bundles[i].backends[a]
    IN
    /\ gen_req[r].pc = "sent"
    /\ \E failed \in BOOLEAN :
        gen_bundles' = [gen_bundles EXCEPT ![i].backends[a] =
            dec_connections(IF failed THEN mark_failure(b, cfg.unhealthy_threshold)
                            ELSE mark_success(b, cfg.healthy_threshold))]
    /\ gen_req' = [gen_req EXCEPT ![r].pc = "done", ![r].backend = 0]
    /\ UNCHANGED <<gen_tick, gen_updates, notGenVars>>
    /\ Observed

\* server.rs:291-300, active.rs:54-118  a tick of the monitor run spawned:
\* check_all probes the backends of the BackendManager the monitor was
\* given, with the thresholds of the configuration it was given
GenTick ==
    LET cfg == gen_bundles[1].config IN
    /\ MonitorRuns
    /\ \E healthy \in [GenAddrs -> BOOLEAN] :
        gen_bundles' = [gen_bundles EXCEPT ![1].backends =
            [a \in GenAddrs |->
                IF healthy[a] THEN mark_success(@[a], cfg.healthy_threshold)
                ELSE mark_failure(@[a], cfg.unhealthy_threshold)]]
    /\ gen_tick' = [bundle |-> 1, installed |-> Installed]
    /\ UNCHANGED <<gen_req, gen_updates, notGenVars>>
    /\ Observed

\* server.rs:301-317, processor.rs:10-21  the payment watcher applies a
\* payment of user u to the cache it was given when run spawned it
GenPayment(u) ==
    /\ gen_bundles[1].config.payments_enabled
    /\ u \notin gen_updates
    /\ gen_bundles' = [gen_bundles EXCEPT ![1].cache = @ \cup {u}]
    /\ gen_updates' = gen_updates \cup {u}
    /\ UNCHANGED <<gen_req, gen_tick, notGenVars>>
    /\ Observed

\* server.rs:253-256  the reloader builds an InnerState from configuration c
\* and stores it
GenReload(c) ==
    /\ Installed <= MaxReloads
    /\ gen_bundles' = Append(gen_bundles, gen_build_inner(c))
    /\ UNCHANGED <<gen_req, gen_tick, gen_updates, notGenVars>>
    /\ Observed

NextGen ==
    \/ \E r \in Requests : GenLoad(r) \/ GenGet(r) \/ GenResponse(r)
    \/ GenTick
    \/ \E u \in {1} : GenPayment(u)
    \/ \E c \in GenConfigs : GenReload(c)

SpecGen == InitGen /\ [][NextGen]_vars

\* C34: after a reload the monitor works against the new bundle: a tick
\* that follows a reload probes the backends of the installed bundle.
C34_MonitorFollowsReload ==
    gen_tick.bundle # 0 => gen_tick.bundle = gen_tick.installed

\* C35: a subscription update applied by the payment watcher is visible to
\* the gate of every request that starts after it, whatever reloads happen
\* before or after the update: the installed bundle's cache holds it.
C35_UpdatesVisible ==
    gen_updates \subseteq gen_bundles[Installed].cache

\* C38: with active health checks disabled and no request in flight, an
\* Unhealthy backend stays Unhealthy, and a group whose backends are all
\* Unhealthy answers 503 to every later request: none is sent upstream.
C38_NoRecoveryWithoutMarks ==
    gen_dead => \A r \in Requests : gen_req[r].pc # "sent"

\* C39: a reload does not change the health state of a backend whose
\* address is unchanged: one that was Unhealthy in the bundle replaced is
\* Unhealthy in the bundle installed.
C39_HealthSurvivesReload ==
    [][Len(gen_bundles') > Len(gen_bundles) =>
          \A a \in GenAddrs :
              gen_bundles[Installed].backends[a].state = "Unhealthy"
                  => gen_bundles'[Len(gen_bundles')].backends[a].state = "Unhealthy"]_vars

\* C40: the requests in flight to one backend address, those running
\* against an old bundle counted with those of the new one, never exceed the
\* backend's max_connections.
C40_CapAcrossReloads ==
    \A a \in GenAddrs :
        Cardinality(InFlight(a)) <= gen_bundles[Installed].config.max_connections

(* ------- SpecRace: mark_success and mark_failure at the same time ------- *)

InitRace ==
    /\ race_b = NewBackend(1)
    /\ race_cfg \in [healthy_threshold : 1..PoolMaxThreshold,
                     unhealthy_threshold : 1..PoolMaxThreshold]
    /\ race_pc = [t \in RaceThreads |-> "idle"]
    /\ race_local = [t \in RaceThreads |-> 0]
    /\ race_before = NewBackend(1)
    /\ race_warm = 0
    /\ RaceOthersIdle

\* an earlier call, made and finished while no other call runs
RaceWarm ==
    /\ \A t \in RaceThreads : race_pc[t] = "idle"
    /\ race_warm < RaceWarmCalls
    /\ race_warm' = race_warm + 1
    /\ \/ race_b' = mark_success(race_b, race_cfg.healthy_threshold)
       \/ race_b' = mark_failure(race_b, race_cfg.unhealthy_threshold)
    /\ race_before' = race_b'
    /\ UNCHANGED <<race_cfg, race_pc, race_local, notRaceVars>>

\* the two calls begin: a request outcome and a probe, or two request
\* outcomes, report on the same backend
RaceBegin ==
    /\ \A t \in RaceThreads : race_pc[t] = "idle"
    /\ race_pc' = [t \in RaceThreads |-> "store"]
    /\ race_before' = race_b
    /\ UNCHANGED <<race_b, race_cfg, race_local, race_warm, notRaceVars>>

\* backend.rs:114 / 135  the other counter is stored 0
RaceStore(t) ==
    /\ race_pc[t] = "store"
    /\ race_b' = IF t = "success" THEN [race_b EXCEPT !.consecutive_failures = 0]
                 ELSE [race_b EXCEPT !.consecutive_successes = 0]
    /\ race_pc' = [race_pc EXCEPT ![t] = "load"]
    /\ UNCHANGED <<race_cfg, race_local, race_before, race_warm, notRaceVars>>

\* backend.rs:116-120 / 137-140  the state is loaded; the call returns when
\* the backend already is what the call would make it
RaceLoad(t) ==
    /\ race_pc[t] = "load"
    /\ race_pc' = [race_pc EXCEPT ![t] =
          IF race_b.state = (IF t = "success" THEN "Healthy" ELSE "Unhealthy")
          THEN "done" ELSE "add"]
    /\ UNCHANGED <<race_b, race_cfg, race_local, race_before, race_warm, notRaceVars>>

\* backend.rs:123-125 / 143-145  fetch_add(1) + 1 on the call's own counter,
\* compared with the threshold
RaceAdd(t) ==
    LET n == IF t = "success" THEN race_b.consecutive_successes + 1
             ELSE race_b.consecutive_failures + 1
        threshold == IF t = "success" THEN race_cfg.healthy_threshold
                     ELSE race_cfg.unhealthy_threshold
    IN
    /\ race_pc[t] = "add"
    /\ race_b' = IF t = "success" THEN [race_b EXCEPT !.consecutive_successes = n]
                 ELSE [race_b EXCEPT !.consecutive_failures = n]
    /\ race_local' = [race_local EXCEPT ![t] = n]
    /\ race_pc' = [race_pc EXCEPT ![t] = IF n >= threshold THEN "set" ELSE "done"]
    /\ UNCHANGED <<race_cfg, race_before, race_warm, notRaceVars>>

\* backend.rs:127 / 147  the state is stored
RaceSet(t) ==
    /\ race_pc[t] = "set"
    /\ race_b' = [race_b EXCEPT !.state = IF t = "success" THEN "Healthy" ELSE "Unhealthy"]
    /\ race_pc' = [race_pc EXCEPT ![t] = "done"]
    /\ UNCHANGED <<race_cfg, race_local, race_before, race_warm, notRaceVars>>

NextRace ==
    \/ RaceWarm
    \/ RaceBegin
    \/ \E t \in RaceThreads : RaceStore(t) \/ RaceLoad(t) \/ RaceAdd(t) \/ RaceSet(t)

SpecRace == InitRace /\ [][NextRace]_vars

\* the backend after the two calls made one after the other, in either order
Linearizations ==
    { mark_failure(mark_success(race_before, race_cfg.healthy_threshold),
                   race_cfg.unhealthy_threshold),
      mark_success(mark_failure(race_before, race_cfg.unhealthy_threshold),
                   race_cfg.healthy_threshold) }

\* C36: a mark_success and a mark_failure running at the same time on one
\* backend leave the state and the two counters that the two calls leave
\* when made one after the other, in one of the two orders.
C36_MarksLinearizable ==
    (\A t \in RaceThreads : race_pc[t] = "done") => race_b \in Linearizations

=============================================================================
